---- MODULE Spec2Model ----
(***************************************************************************)
(* Verification model of the astra data-synthesis pipelines.               *)
(*                                                                         *)
(* Part I   (Spec)       the stage executors: resume, append/truncate,     *)
(*                       commit of worker results, kill and re-run.        *)
(* Part II  (SpecClient) the two LLM clients and their retry loops.        *)
(* Part III (SpecSynth)  the tool synthesizer of env_synthesis step 04.    *)
(*                                                                         *)
(* Every part has its own Init/Next; the variables of the other parts are  *)
(* parked at a fixed value and left unchanged.                             *)
(***************************************************************************)
EXTENDS Integers, Sequences, FiniteSets, Bags, TLC

VARIABLES
    \* ---- Part I: stage executors ----
    stage,        \* which executor drives the stage
    batch_size,   \* run_inference --batch_size
    keyOf,        \* resume key of every input record
    exists,       \* os.path.exists(output file)
    file,         \* the output file (raw output file of multi_call): the bag of its lines
    fparsed,      \* the parsed output file of multi_call: the bag of its lines
    pc,           \* "idle" | "running" | "done" | "killed"
    pending,      \* inputs handed to the pool whose result has not come back
    batch,        \* run_inference: results held in memory, not yet written
    runNo,        \* number of runs started so far
    preFile,      \* history: the output file when the current run started
    prevEnd,      \* history: how the previous run ended ("none" | "done" | "killed")
    handedNow,    \* history: inputs handed to workers by the current run
    raisedNow,    \* history: inputs whose worker raised or timed out in the current run
    \* ---- Part II: LLM clients ----
    client,       \* which client function is called
    stream,       \* config["stream"]
    cpc,          \* "off" | "calling" | "returned"
    cur_retry,    \* the client's retry counter
    attempts,     \* history: API attempts made by this call
    sleeps,       \* history: number of time.sleep calls
    sleepTimes,   \* history: the durations slept
    lastErr,      \* message class of the last failed attempt, "none" after a success
    ret,          \* the value returned
    \* ---- Part III: tool synthesizer ----
    spc,           \* "off" | "doc" | "scale" | "call" | "deploy" | "validate" | "returned" | "raised"
    answer,        \* q_a_pairs["answer"]
    outer_try,     \* try_times of synthesis_single_env
    inner_try,     \* try_times of _single_env_synthesis
    llm_try,       \* try_times of the stage function that is running
    tool_document, \* ret_dict["data"]["tool_document"]
    call_statement,\* call_statement_generation_result["content"]
    cur_code,      \* tool_deployment_result["content"]
    result,        \* what synthesis_single_env returned
    validations,   \* history: validation executions submitted to the sandbox
    docGensInv,    \* history: scaled documents generated by the current invocation
    firstValDoc,   \* history: the document of the first validation execution
    scaledDocInv,  \* history: the scaled document generated by the current invocation
    passedRuns,    \* history: the validation executions that met the acceptance test
    raisedBy,      \* history: what raised the exception that ended the run ("reply" | "sandbox")
    \* ---- Part IV: cluster merge engine ----
    mpc,              \* "off" | "aggregate" | "merge" | "post" | "returned" | "raised"
    env_kind,         \* the input's env_result: "null" | "invalid" (fails _check_env) | "valid"
    env_result,       \* data["env_result"]
    ia_attempt,       \* attempt of intent_aggregation
    clusters,         \* data["clusters"]
    retry_count,      \* retry_count of merge_single_cluster_code
    best_result,      \* best_result of merge_single_cluster_code
    best_passed_count,\* best_passed_count of merge_single_cluster_code
    merged_code,      \* the local merged_code of merge_single_cluster_code
    aggregated_env,   \* data["aggregated_env"]
    mret,             \* what merge_tools returned: "unset" | "data" | "null"
    attemptLog,       \* history: attempts made, whether one reached verification, largest passed-count
    \* ---- Part V: judge ensembles ----
    ensemble,         \* "verify" (step 03, verify_all) | "reward" (4_reward, reward_all)
    epc,              \* "gather" | "done"
    results,          \* what asyncio.gather holds for each judge: "pending", an exception or a payload
    final_results,    \* final_results of verify_all / reward_all
    overall,          \* the mean of the scores, as numerator and denominator
    judgeInput,       \* history: what happened inside each judge
    \* ---- Part VI: one agent task of the interaction stage ----
    apc,              \* "start" | "running" | "written"
    system_prompt,    \* whether args.system_prompt is non-empty
    responses,        \* responses of process_item_async: None or the list last yielded by agent.run
    record,           \* the "trajectory" of the record written to the output file
    howEnded,         \* history: "none" | "ok" | "raised" | "timeout"
    \* ---- Part VII: message normalization for the LLM API ----
    fmt,              \* "qwen" (input of convert_messages_to_dicts) | "api" (input of normalize_messages_for_api)
    msgs,             \* the message list handed to the function
    npc,              \* "input" | "done"
    normalized,              \* converted_messages / norm
    \* ---- Part VIII: named semaphores ----
    _semaphores,      \* name -> (semaphore, loop_id) or NoSemaphore
    _max_concurrent,  \* module global
    running_loop,     \* the running event loop (identity and id()) or NoLoop
    loops_made,       \* event loops created so far
    sems_made,        \* semaphore objects created so far
    got,              \* history: the last get_semaphore call, its loop and what it returned
    \* ---- Part IX: tool graph and sub-chains ----
    gpc,              \* "input" | "built" | "extracted"
    tool_list,        \* names of the tools of the server, in order
    chains,           \* the detected chains (tool_graph_detect_chain of each)
    nexts,            \* graph: node name -> list of successor names
    lengths,          \* <<min_length, max_length>> of the extraction
    sub_chains,       \* the emitted sub-chains, in order
    \* ---- Part X: plan segments and tool-call score ----
    rpc,              \* "input" | "planned" | "scored"
    trajectory,       \* messages of the trajectory being scored
    segments,         \* plan segments judged: position of the assistant message of each
    tool_status_results,\* verdict of the status judge for each tool message judged, by position
    tool_call_payload, \* payload of get_tool_call_score
    \* ---- Part XI: final-answer correlation judge ----
    lpc,              \* "input" | "done"
    query,            \* content of trajectory[1]
    final_answer,     \* content of trajectory[-1]
    llm_calls,        \* get_model_ans calls made by the correlation judge
    correlation,      \* payload of the correlation judge
    \* ---- Part XII: tool necessity check ----
    tpc,              \* "calling" | "done"
    decomposition_trace,\* steps of the record: dependency and tool_necessity of each
    cn_attempt,       \* attempt of check_necessity
    tool_necessity_legitimacy,\* "unset" | "true" | "false"
    cnEnded,          \* history: "accepted" (a reply was applied in full) | "gave_up"
    \* ---- Part XIII: questions handed to the synthesizer ----
    aug_pc,           \* "input" | "done"
    data_dict,        \* decomposition_trace of the record: hop_level, dependency, tool_necessity of each step
    q_a_handed,       \* history: q_a_pairs["question"] handed to synthesis_single_env for each step, or NotHanded
    step_env_result,  \* data_dict["env_result"]: "none" | "result" per step
    \* ---- Part XIV: query augmenter ----
    aq_done,          \* queries whose response multi_call has handled
    out_file_parsed,  \* records written to the parsed output, per query
    \* ---- Part XV: tool binding of the agent ----
    bpc,              \* "input" | "done"
    call_info,        \* mcp_info["call_info"] and the smithery profile of the run
    function_list,    \* tools given to Assistant, or NoAgent when create_agent returns None
    \* ---- Part XVI: coroutines under a named semaphore ----
    coros,            \* state of each wrapped coroutine: where it is, its name, its semaphore
    sem_value,        \* _value of each semaphore object created
    sem_bound,        \* event loop each semaphore object is bound to (0: none yet)
    \* ---- Part XVII: scores of the decomposition verifier ----
    vpc,              \* "input" | "done"
    verify_trace,     \* dependency of each step of the record verified
    sub_scores,       \* score of each of the four sub-judges, as a fraction
    verify_result_score,\* verify_result.score, as a fraction
    \* ---- Part XVIII: multi_process_async_call ----
    wpc,              \* position of multi_process_async_call: idle, collecting, joining, returned, raised
    num_processes,    \* the num_processes argument
    total_items,      \* len(inp_list)
    proc_state,       \* per started process: running, exited, died
    chunk_todo,       \* per started process: results of its chunk not yet put
    result_queue,     \* the process ids of the results in result_queue, oldest first
    result_count,     \* results written to out_file
    \* ---- Part XIX: voting ensembles of the chain verifiers ----
    voter,            \* "vote_answers" | "back_translation_verify_score"
    vote_pc,          \* "input" | "done" | "raised"
    judge_replies,    \* what each judge gave, in order
    vote_result       \* the vote: is_valid / vote_valid and the counts

stageVars == <<stage, batch_size, keyOf, exists, file, fparsed, pc, pending, batch,
               runNo, preFile, prevEnd, handedNow, raisedNow>>

clientVars == <<client, stream, cpc, cur_retry, attempts, sleeps, sleepTimes, lastErr, ret>>

synthVars == <<spc, answer, outer_try, inner_try, llm_try, tool_document, call_statement,
               cur_code, result, validations, docGensInv, firstValDoc, raisedBy,
               scaledDocInv, passedRuns>>

mergeVars == <<mpc, env_kind, env_result, ia_attempt, clusters, retry_count, best_result,
               best_passed_count, merged_code, aggregated_env, mret, attemptLog>>

ensembleVars == <<ensemble, epc, results, final_results, overall, judgeInput>>

agentVars == <<apc, system_prompt, responses, record, howEnded>>

normVars == <<fmt, msgs, npc, normalized>>

semVars == <<_semaphores, _max_concurrent, running_loop, loops_made, sems_made, got>>

graphVars == <<gpc, tool_list, chains, nexts, lengths, sub_chains>>

rewardVars == <<rpc, trajectory, segments, tool_status_results, tool_call_payload>>

langVars == <<lpc, query, final_answer, llm_calls, correlation>>

necessityVars == <<tpc, decomposition_trace, cn_attempt, tool_necessity_legitimacy, cnEnded>>

augVars == <<aug_pc, data_dict, q_a_handed, step_env_result>>

augmenterVars == <<aq_done, out_file_parsed>>

bindingVars == <<bpc, call_info, function_list>>

gatherVars == <<coros, sem_value, sem_bound>>

verifyVars == <<vpc, verify_trace, sub_scores, verify_result_score>>

workerVars == <<wpc, num_processes, total_items, proc_state, chunk_todo, result_queue, result_count>>

voteVars == <<voter, vote_pc, judge_replies, vote_result>>

vars == <<stageVars, clientVars, synthVars, mergeVars, ensembleVars, agentVars, normVars, semVars, graphVars, rewardVars, langVars, necessityVars, augVars, augmenterVars, bindingVars, gatherVars, verifyVars, workerVars, voteVars>>

\* the parts that an action of Part I, II, III leaves alone
FrameI == UNCHANGED <<clientVars, synthVars, mergeVars, ensembleVars, agentVars, normVars, semVars, graphVars, rewardVars, langVars, necessityVars, augVars, augmenterVars, bindingVars, gatherVars, verifyVars, workerVars, voteVars>>
FrameII == UNCHANGED <<stageVars, synthVars, mergeVars, ensembleVars, agentVars, normVars, semVars, graphVars, rewardVars, langVars, necessityVars, augVars, augmenterVars, bindingVars, gatherVars, verifyVars, workerVars, voteVars>>
FrameIII == UNCHANGED <<stageVars, clientVars, mergeVars, ensembleVars, agentVars, normVars, semVars, graphVars, rewardVars, langVars, necessityVars, augVars, augmenterVars, bindingVars, gatherVars, verifyVars, workerVars, voteVars>>
FrameIV == UNCHANGED <<stageVars, clientVars, synthVars, ensembleVars, agentVars, normVars, semVars, graphVars, rewardVars, langVars, necessityVars, augVars, augmenterVars, bindingVars, gatherVars, verifyVars, workerVars, voteVars>>
FrameV == UNCHANGED <<stageVars, clientVars, synthVars, mergeVars, agentVars, normVars, semVars, graphVars, rewardVars, langVars, necessityVars, augVars, augmenterVars, bindingVars, gatherVars, verifyVars, workerVars, voteVars>>
FrameVI == UNCHANGED <<stageVars, clientVars, synthVars, mergeVars, ensembleVars, normVars, semVars, graphVars, rewardVars, langVars, necessityVars, augVars, augmenterVars, bindingVars, gatherVars, verifyVars, workerVars, voteVars>>
FrameVII == UNCHANGED <<stageVars, clientVars, synthVars, mergeVars, ensembleVars, agentVars, semVars, graphVars, rewardVars, langVars, necessityVars, augVars, augmenterVars, bindingVars, gatherVars, verifyVars, workerVars, voteVars>>
FrameVIII == UNCHANGED <<stageVars, clientVars, synthVars, mergeVars, ensembleVars, agentVars, normVars, graphVars, rewardVars, langVars, necessityVars, augVars, augmenterVars, bindingVars, gatherVars, verifyVars, workerVars, voteVars>>
FrameIX == UNCHANGED <<stageVars, clientVars, synthVars, mergeVars, ensembleVars, agentVars, normVars, semVars, rewardVars, langVars, necessityVars, augVars, augmenterVars, bindingVars, gatherVars, verifyVars, workerVars, voteVars>>
FrameX == UNCHANGED <<stageVars, clientVars, synthVars, mergeVars, ensembleVars, agentVars, normVars, semVars, graphVars, langVars, necessityVars, augVars, augmenterVars, bindingVars, gatherVars, verifyVars, workerVars, voteVars>>
FrameXI == UNCHANGED <<stageVars, clientVars, synthVars, mergeVars, ensembleVars, agentVars, normVars, semVars, graphVars, rewardVars, necessityVars, augVars, augmenterVars, bindingVars, gatherVars, verifyVars, workerVars, voteVars>>
FrameXII == UNCHANGED <<stageVars, clientVars, synthVars, mergeVars, ensembleVars, agentVars, normVars, semVars, graphVars, rewardVars, langVars, augVars, augmenterVars, bindingVars, gatherVars, verifyVars, workerVars, voteVars>>
FrameXIII == UNCHANGED <<stageVars, clientVars, synthVars, mergeVars, ensembleVars, agentVars, normVars, semVars, graphVars, rewardVars, langVars, necessityVars, augmenterVars, bindingVars, gatherVars, verifyVars, workerVars, voteVars>>
FrameXIV == UNCHANGED <<stageVars, clientVars, synthVars, mergeVars, ensembleVars, agentVars, normVars, semVars, graphVars, rewardVars, langVars, necessityVars, augVars, bindingVars, gatherVars, verifyVars, workerVars, voteVars>>
FrameXV == UNCHANGED <<stageVars, clientVars, synthVars, mergeVars, ensembleVars, agentVars, normVars, semVars, graphVars, rewardVars, langVars, necessityVars, augVars, augmenterVars, gatherVars, verifyVars, workerVars, voteVars>>
FrameXVI == UNCHANGED <<stageVars, clientVars, synthVars, mergeVars, ensembleVars, agentVars, normVars, semVars, graphVars, rewardVars, langVars, necessityVars, augVars, augmenterVars, bindingVars, verifyVars, workerVars, voteVars>>
FrameXVII == UNCHANGED <<stageVars, clientVars, synthVars, mergeVars, ensembleVars, agentVars, normVars, semVars, graphVars, rewardVars, langVars, necessityVars, augVars, augmenterVars, bindingVars, gatherVars, workerVars, voteVars>>
FrameXVIII == UNCHANGED <<stageVars, clientVars, synthVars, mergeVars, ensembleVars, agentVars, normVars, semVars, graphVars, rewardVars, langVars, necessityVars, augVars, augmenterVars, bindingVars, gatherVars, verifyVars, voteVars>>
FrameXIX == UNCHANGED <<stageVars, clientVars, synthVars, mergeVars, ensembleVars, agentVars, normVars, semVars, graphVars, rewardVars, langVars, necessityVars, augVars, augmenterVars, bindingVars, gatherVars, verifyVars, workerVars>>

(***************************************************************************)
(* Bounds                                                                  *)
(***************************************************************************)
NumInputs == 2      \* input records of a stage
MaxRuns == 2        \* runs of the same stage on the same output path
MaxBatch == 2       \* largest --batch_size tried
MaxAttempts == 12   \* API attempts of one client call that the model follows
NumMembers == 2     \* sub-questions of a record that carry a synthesized tool

Inputs == 1..NumInputs

(***************************************************************************)
(* Part I: stage executors                                                 *)
(***************************************************************************)
Stages == {"run_inference", "interact", "gen_and_parse", "gen_query", "gen_score",
           "async_call"}

\* multi_call is the executor behind gen_query and gen_score
MultiCallStages == {"gen_query", "gen_score"}

\* what a worker can do with one input
Outcomes(s) == IF s = "interact" THEN {"ok", "raise", "timeout"} ELSE {"ok", "raise"}

\* One output line: the input's fields (id, resume key), what the worker made of
\* it ("ok": a response; "raise", "timeout": an error string), and (history only)
\* the run that wrote it.
Line(i, k, o, r) == [id |-> i, key |-> k, res |-> o, run |-> r]

\* what a reader of the file sees of a line
Visible(l) == [id |-> l.id, key |-> l.key, res |-> l.res]

IsErrorLine(l) == l.res # "ok"

\* The code appends lines in completion order and never reads a line's position,
\* so a file is modelled by the bag (multiset) of its lines.
NoLines == EmptyBag

\* the lines of an in-memory list, as a bag
RECURSIVE BagOfSeq(_)
BagOfSeq(q) == IF q = <<>> THEN EmptyBag ELSE SetToBag({Head(q)}) (+) BagOfSeq(Tail(q))

\* the keys a resume scan collects from an output file
KeysIn(f) == {l.key : l \in BagToSet(f)}

\* number of lines of f that satisfy the test given as a set of lines
CountIn(f, ls) == BagCardinality([l \in (ls \cap BagToSet(f)) |-> f[l]])
NumLines(f) == BagCardinality(f)
CountId(f, i) == CountIn(f, {l \in BagToSet(f) : l.id = i})
CountVisible(f, v) == CountIn(f, {l \in BagToSet(f) : Visible(l) = v})
VisibleSet(f) == {Visible(l) : l \in BagToSet(f)}

DistinctKeys == \A i, j \in Inputs : i # j => keyOf[i] # keyOf[j]

\* run_inference: remaining_data = items whose prompt is not in processed_prompts
run_inference_remaining(ks, f, ex) ==
    {i \in Inputs : ks[i] \notin (IF ex THEN KeysIn(f) ELSE {})}

\* interact_qwen_agent.load_data: items whose extracted query is not in query_set
load_data(ks, f, ex) ==
    {i \in Inputs : ks[i] \notin (IF ex THEN KeysIn(f) ELSE {})}

\* 1_2_gen_score.gen: filter by metadata.prompt_id, only when processed_ids is non-empty
gen_score_remaining(ks, f, ex) ==
    LET processed_ids == IF ex THEN KeysIn(f) ELSE {}
    IN  IF processed_ids # {} THEN {i \in Inputs : ks[i] \notin processed_ids}
        ELSE Inputs

\* 1_2_gen_score.gen: append_mode is set once the raw file exists
gen_score_append_mode(ex) == ex

\* 1_2_gen_query.gen: every input (n_sample copies of it) goes to multi_call
gen_query_inp_list == Inputs

\* open(path, mode): "w" truncates, "a" keeps what is there
Open(f, mode) == IF mode = "w" THEN NoLines ELSE f

\* f.write(json.dumps(record) + "\n")
CommitTwice(f, l) == f (+) SetToBag({l}) (+) SetToBag({l})
Commit(f, l) == f (+) SetToBag({l})

StartHistory(f, rem) ==
    /\ runNo' = runNo + 1
    /\ preFile' = f
    /\ prevEnd' = IF pc = "idle" THEN "none" ELSE pc
    /\ handedNow' = rem
    /\ raisedNow' = {}

CanStart == pc \in {"idle", "done", "killed"} /\ runNo < MaxRuns

\* multiprocess_inference.run_inference, up to the start of the pool
run_inference_start ==
    /\ stage = "run_inference" /\ CanStart
    /\ LET rem == run_inference_remaining(keyOf, file, exists)
       IN  /\ StartHistory(file, rem)
           /\ pending' = rem
           /\ IF rem = {}
              THEN pc' = "done" /\ UNCHANGED <<file, exists>>
              ELSE pc' = "running" /\ file' = Open(file, "a") /\ exists' = TRUE
    /\ batch' = <<>>
    /\ UNCHANGED <<stage, batch_size, keyOf, fparsed>>
    /\ FrameI

\* interact_qwen_agent.main: load_data, open(output, "a"), process_items_parallel
interact_main ==
    /\ stage = "interact" /\ CanStart
    /\ LET rem == load_data(keyOf, file, exists)
       IN  /\ StartHistory(file, rem)
           /\ pending' = rem
    /\ pc' = "running"
    /\ file' = Open(file, "a") /\ exists' = TRUE
    /\ UNCHANGED <<stage, batch_size, keyOf, fparsed, batch>>
    /\ FrameI

\* 1_gen_and_parse.main step 3: skip generation when the raw file exists,
\* otherwise multi_process_async_call, which opens the file with "w"
gen_and_parse_main ==
    /\ stage = "gen_and_parse" /\ CanStart
    /\ IF exists
       THEN /\ StartHistory(file, {})
            /\ pending' = {}
            /\ pc' = "done"
            /\ UNCHANGED <<file, exists>>
       ELSE /\ StartHistory(file, Inputs)
            /\ pending' = Inputs
            /\ pc' = "running"
            /\ file' = Open(file, "w") /\ exists' = TRUE
    /\ UNCHANGED <<stage, batch_size, keyOf, fparsed, batch>>
    /\ FrameI

\* 1_2_gen_query.gen: multi_call with the default append_mode=True
gen_query_gen ==
    /\ stage = "gen_query" /\ CanStart
    /\ StartHistory(file, gen_query_inp_list)
    /\ pending' = gen_query_inp_list
    /\ pc' = "running"
    /\ file' = Open(file, "a") /\ fparsed' = Open(fparsed, "a") /\ exists' = TRUE
    /\ UNCHANGED <<stage, batch_size, keyOf, batch>>
    /\ FrameI

\* 1_2_gen_score.gen: resume filter, early return, multi_call(append_mode)
gen_score_gen ==
    /\ stage = "gen_score" /\ CanStart
    /\ LET rem == gen_score_remaining(keyOf, file, exists)
           mode == IF gen_score_append_mode(exists) THEN "a" ELSE "w"
       IN  /\ StartHistory(file, rem)
           /\ pending' = rem
           /\ IF rem = {}
              THEN pc' = "done" /\ UNCHANGED <<file, fparsed, exists>>
              ELSE /\ pc' = "running"
                   /\ file' = Open(file, mode) /\ fparsed' = Open(fparsed, mode)
                   /\ exists' = TRUE
    /\ UNCHANGED <<stage, batch_size, keyOf, batch>>
    /\ FrameI

\* utils.run_async_call / async_call (and multi_process_async_call called on its
\* own): every input is processed and the file is opened with "w"
run_async_call ==
    /\ stage = "async_call" /\ CanStart
    /\ StartHistory(file, Inputs)
    /\ pending' = Inputs
    /\ pc' = "running"
    /\ file' = Open(file, "w") /\ exists' = TRUE
    /\ UNCHANGED <<stage, batch_size, keyOf, fparsed, batch>>
    /\ FrameI

ResultHistory(i, o) ==
    /\ raisedNow' = IF o = "ok" THEN raisedNow ELSE raisedNow \cup {i}
    /\ UNCHANGED <<runNo, preFile, prevEnd, handedNow>>

\* run_inference: one result of imap_unordered; process_single_prompt turns an
\* exception into a record with "error"; the batch is written when it is full
run_inference_result(i, o) ==
    /\ stage = "run_inference" /\ pc = "running" /\ i \in pending
    /\ o \in Outcomes(stage)
    /\ pending' = pending \ {i}
    /\ LET b == Append(batch, Line(i, keyOf[i], o, runNo))
       IN  IF Len(b) >= batch_size
           THEN /\ file' = file (+) BagOfSeq(b)
                /\ batch' = <<>>
           ELSE /\ batch' = b
                /\ UNCHANGED file
    /\ ResultHistory(i, o)
    /\ UNCHANGED <<stage, batch_size, keyOf, exists, fparsed, pc>>
    /\ FrameI

\* process_items_parallel: one completed future; result, exception and timeout
\* all end in one write of results[idx]
process_items_parallel_result(i, o) ==
    /\ stage = "interact" /\ pc = "running" /\ i \in pending
    /\ o \in Outcomes(stage)
    /\ pending' = pending \ {i}
    /\ file' = Commit(file, Line(i, keyOf[i], o, runNo))
    /\ ResultHistory(i, o)
    /\ UNCHANGED <<stage, batch_size, keyOf, exists, fparsed, pc, batch>>
    /\ FrameI

\* multi_call: one response of imap_unordered(_openai_call_sync); the raw line is
\* always written; gen_query writes a parsed line when the reply parses
multi_call_result(i, o, parses) ==
    /\ stage \in MultiCallStages /\ pc = "running" /\ i \in pending
    /\ o \in Outcomes(stage)
    /\ pending' = pending \ {i}
    /\ file' = Commit(file, Line(i, keyOf[i], o, runNo))
    /\ fparsed' = IF stage = "gen_query" /\ o = "ok" /\ parses
                  THEN Commit(fparsed, Visible(Line(i, keyOf[i], o, runNo)))
                  ELSE fparsed
    /\ ResultHistory(i, o)
    /\ UNCHANGED <<stage, batch_size, keyOf, exists, pc, batch>>
    /\ FrameI

\* async_call / multi_process_async_call: one result written and flushed;
\* openai_call_async turns an exception into an "error msg" response
async_call_result(i, o) ==
    /\ stage \in {"gen_and_parse", "async_call"} /\ pc = "running" /\ i \in pending
    /\ o \in Outcomes(stage)
    /\ pending' = pending \ {i}
    /\ file' = Commit(file, Line(i, keyOf[i], o, runNo))
    /\ ResultHistory(i, o)
    /\ UNCHANGED <<stage, batch_size, keyOf, exists, fparsed, pc, batch>>
    /\ FrameI

\* the loop over results ends: run_inference writes what is left of the batch
RunCompletes ==
    /\ pc = "running" /\ pending = {}
    /\ file' = file (+) BagOfSeq(batch)
    /\ batch' = <<>>
    /\ pc' = "done"
    /\ UNCHANGED <<stage, batch_size, keyOf, exists, fparsed, pending,
                   runNo, preFile, prevEnd, handedNow, raisedNow>>
    /\ FrameI

\* the process is killed: memory is lost, the file keeps the lines written so far
Kill ==
    /\ pc = "running"
    /\ pc' = "killed"
    /\ pending' = {}
    /\ batch' = <<>>
    /\ UNCHANGED <<stage, batch_size, keyOf, exists, file, fparsed,
                   runNo, preFile, prevEnd, handedNow, raisedNow>>
    /\ FrameI

\* the executors whose resume scan reads a key from the output file
KeyedStages == {"run_inference", "interact", "gen_score"}

\* each input has a key of its own or shares the key of input 1; an executor that
\* reads no key is run on inputs with keys of their own
KeyAssignments(s) ==
    IF s \in KeyedStages
    THEN {ks \in [Inputs -> Inputs] : \A i \in Inputs : ks[i] \in {1, i}}
    ELSE {[i \in Inputs |-> i]}

InitStage ==
    /\ stage \in Stages
    /\ batch_size \in (IF stage = "run_inference" THEN 1..MaxBatch ELSE {1})
    /\ keyOf \in KeyAssignments(stage)
    /\ exists = FALSE
    /\ file = NoLines
    /\ fparsed = NoLines
    /\ pc = "idle"
    /\ pending = {}
    /\ batch = <<>>
    /\ runNo = 0
    /\ preFile = NoLines
    /\ prevEnd = "none"
    /\ handedNow = {}
    /\ raisedNow = {}

\* Part I at rest, for the specifications of the other parts
ParkStage ==
    /\ stage = "none" /\ batch_size = 1 /\ keyOf = [i \in Inputs |-> i]
    /\ exists = FALSE /\ file = NoLines /\ fparsed = NoLines
    /\ pc = "off" /\ pending = {} /\ batch = <<>> /\ runNo = 0
    /\ preFile = NoLines /\ prevEnd = "none" /\ handedNow = {} /\ raisedNow = {}

\* Part III at rest
ParkSynth ==
    /\ spc = "off" /\ answer = <<>> /\ outer_try = 0 /\ inner_try = 0 /\ llm_try = 0
    /\ tool_document = "none" /\ call_statement = "none" /\ cur_code = "none"
    /\ result = [kind |-> "unset"]
    /\ validations = 0 /\ docGensInv = 0
    /\ firstValDoc = "none" /\ scaledDocInv = "none" /\ passedRuns = {}
    /\ raisedBy = "none"

\* Part II at rest
ParkClient ==
    /\ client = "none" /\ stream = FALSE /\ cpc = "off" /\ cur_retry = 0
    /\ attempts = 0 /\ sleeps = 0 /\ sleepTimes = {} /\ lastErr = "none"
    /\ ret = [response |-> "unset"]

\* Part IV at rest
ParkMerge ==
    /\ mpc = "off" /\ env_kind = "null" /\ env_result = <<>> /\ ia_attempt = 0
    /\ clusters = {} /\ retry_count = 0 /\ best_result = [kind |-> "none"]
    /\ best_passed_count = 0 /\ merged_code = [src |-> "unbound", attempt |-> 0, of |-> 0]
    /\ aggregated_env = <<>> /\ mret = "unset"
    /\ attemptLog = [made |-> 0, anyVerified |-> FALSE, maxPassed |-> 0]

\* Part V: judge ensembles at rest
ParkEnsemble ==
    /\ ensemble = "none" /\ epc = "off" /\ results = <<>> /\ final_results = <<>>
    /\ overall = [num |-> 0, den |-> 0] /\ judgeInput = <<>>

\* Part VI: one agent task of the interaction stage at rest
ParkAgent ==
    /\ apc = "off" /\ system_prompt = FALSE /\ responses = [none |-> TRUE, list |-> <<>>]
    /\ record = <<>> /\ howEnded = "none"

\* Part VII: message normalization for the LLM API at rest
ParkNorm ==
    /\ fmt = "none" /\ msgs = <<>> /\ npc = "off" /\ normalized = <<>>

\* Part VIII: named semaphores at rest
ParkSem ==
    /\ _semaphores = <<>> /\ _max_concurrent = 0 /\ running_loop = <<>>
    /\ loops_made = 0 /\ sems_made = 0 /\ got = <<>>

\* Part IX: tool graph and sub-chains at rest
ParkGraph ==
    /\ gpc = "off" /\ tool_list = <<>> /\ chains = <<>> /\ nexts = <<>>
    /\ lengths = <<>> /\ sub_chains = <<>>

\* Part X: plan segments and tool-call score at rest
ParkReward ==
    /\ rpc = "off" /\ trajectory = <<>> /\ segments = <<>>
    /\ tool_status_results = <<>> /\ tool_call_payload = <<>>

\* Part XI: final-answer correlation judge at rest
ParkLang ==
    /\ lpc = "off" /\ query = <<>> /\ final_answer = <<>> /\ llm_calls = 0 /\ correlation = <<>>

\* Part XII: tool necessity check at rest
ParkNecessity ==
    /\ tpc = "off" /\ decomposition_trace = <<>> /\ cn_attempt = 0
    /\ tool_necessity_legitimacy = "unset" /\ cnEnded = "no"

\* Part XIII: questions handed to the synthesizer at rest
ParkAug ==
    /\ aug_pc = "off" /\ data_dict = <<>> /\ q_a_handed = <<>> /\ step_env_result = <<>>

\* Part XIV: query augmenter at rest
ParkAugmenter ==
    /\ aq_done = {} /\ out_file_parsed = <<>>

\* Part XV: tool binding of the agent at rest
ParkBinding ==
    /\ bpc = "off" /\ call_info = <<>> /\ function_list = <<>>

\* Part XVI: coroutines under a named semaphore at rest
ParkGather ==
    /\ coros = <<>> /\ sem_value = <<>> /\ sem_bound = <<>>

\* Part XVII: scores of the decomposition verifier at rest
ParkVerify ==
    /\ vpc = "off" /\ verify_trace = <<>> /\ sub_scores = <<>> /\ verify_result_score = <<>>

\* Part XVIII: multi_process_async_call at rest
ParkWorkers ==
    /\ wpc = "off" /\ num_processes = 0 /\ total_items = 0 /\ proc_state = <<>>
    /\ chunk_todo = <<>> /\ result_queue = <<>> /\ result_count = 0

\* Part XIX: voting ensembles of the chain verifiers at rest
ParkVote ==
    /\ voter = "none" /\ vote_pc = "off" /\ judge_replies = <<>> /\ vote_result = <<>>

Init == InitStage /\ ParkClient /\ ParkSynth /\ ParkMerge /\ ParkEnsemble /\ ParkAgent /\ ParkNorm /\ ParkSem /\ ParkGraph /\ ParkReward /\ ParkLang /\ ParkNecessity /\ ParkAug /\ ParkAugmenter /\ ParkBinding /\ ParkGather /\ ParkVerify /\ ParkWorkers /\ ParkVote

Next ==
    \/ run_inference_start
    \/ interact_main
    \/ gen_and_parse_main
    \/ gen_query_gen
    \/ gen_score_gen
    \/ run_async_call
    \/ \E i \in Inputs : \E o \in {"ok", "raise"} : run_inference_result(i, o)
    \/ \E i \in Inputs : \E o \in {"ok", "raise", "timeout"} :
          process_items_parallel_result(i, o)
    \/ \E i \in Inputs : \E o \in {"ok", "raise"} : \E p \in BOOLEAN :
          multi_call_result(i, o, p)
    \/ \E i \in Inputs : \E o \in {"ok", "raise"} : async_call_result(i, o)
    \/ RunCompletes
    \/ Kill

Spec == Init /\ [][Next]_vars

(***************************************************************************)
(* Part I: claims                                                          *)
(***************************************************************************)

\* C1: with pairwise distinct resume keys, a run killed after some output lines
\* were written, followed by one re-run to completion, leaves the output file
\* with exactly NumInputs lines, one per input, none duplicated.
C1_KillResumeExactlyOnce ==
    (pc = "done" /\ runNo = 2 /\ prevEnd = "killed" /\ DistinctKeys)
        => /\ NumLines(file) = NumInputs
           /\ \A i \in Inputs : CountId(file, i) = 1

\* C2: a run to completion followed by a second run to completion leaves the
\* output file with the same multiset of lines as after the first run.
C2_RerunSameMultiset ==
    (pc = "done" /\ prevEnd = "done" /\ DistinctKeys)
        => \A v \in VisibleSet(file) \cup VisibleSet(preFile) :
              CountVisible(file, v) = CountVisible(preFile, v)

\* C3: every record the output file held when a run started is still in the
\* output file when the run has ended.
C3_NothingDropped ==
    (pc = "done" /\ DistinctKeys)
        => \A v \in VisibleSet(preFile) : CountVisible(file, v) >= CountVisible(preFile, v)

\* C4: within one run no input is committed to the output file more than once,
\* whether its worker completed, raised or timed out.
C4_NoDoubleWrite ==
    \A i \in Inputs : \A r \in 1..MaxRuns :
        CountIn(file, {l \in BagToSet(file) : l.id = i /\ l.run = r}) <= 1

\* a run of interact that handed every input to a worker has completed, one
\* worker having raised and one having timed out
C4_Witness ==
    /\ stage = "interact" /\ pc = "done" /\ handedNow = Inputs
    /\ \E l \in BagToSet(file) : l.run = runNo /\ l.res = "raise"
    /\ \E l \in BagToSet(file) : l.run = runNo /\ l.res = "timeout"
    /\ NumLines(file) = NumInputs

\* C5: an input whose worker raised still gets an output record carrying an
\* error string, and a later run does not hand an input to a worker when the
\* output file already holds its error record.
C5_ErrorRecordedNotRetried ==
    DistinctKeys =>
    /\ pc = "done"
          => \A i \in raisedNow :
                \E l \in BagToSet(file) : l.id = i /\ l.run = runNo /\ IsErrorLine(l)
    /\ \A l \in BagToSet(preFile) : IsErrorLine(l) => l.id \notin handedNow

(***************************************************************************)
(* Part II: the LLM clients                                                *)
(*   get_openai_model_ans  env_synthesis/src/utils/api_client.py           *)
(*   get_model_ans         trajectory_synthesis/src/utils/api_client.py    *)
(***************************************************************************)
API_RETRY_SLEEP_TIME == 5
API_MAX_RETRY_TIMES == 10

\* defaults of get_model_ans(..., retry_times=3, ..., sleep_time=10); no caller
\* passes either argument
get_model_ans_retry_times == 3
get_model_ans_sleep_time == 10

Clients == {"get_openai_model_ans", "get_model_ans"}

\* classes of str(e) of a failed API attempt:
\*   "transient"     a timeout, a 5xx, a connection reset
\*   "ctx_len_51200" "... is longer than the model's context length (51200 tokens)"
\*   "max_ctx_51200" "... maximum context length of 51200 tokens."
ErrMsgs == {"transient", "ctx_len_51200", "max_ctx_51200"}

\* Python's None, and the values a client returns
PyNone == "<None>"
Answer == [response |-> "text"]

retry_times(c) ==
    IF c = "get_openai_model_ans" THEN API_MAX_RETRY_TIMES ELSE get_model_ans_retry_times

sleep_time(c) ==
    IF c = "get_openai_model_ans" THEN API_RETRY_SLEEP_TIME ELSE get_model_ans_sleep_time

\* the substring tests on str(e) that make a client give up at once
is_context_overflow(c, msg) ==
    IF c = "get_openai_model_ans"
    THEN msg = "ctx_len_51200"
    ELSE msg \in {"max_ctx_51200", "ctx_len_51200"}

\* the payload returned when the client gives up: get_openai_model_ans returns
\* response None, get_model_ans returns the string 'None'
null_payload(c) ==
    IF c = "get_openai_model_ans" THEN [response |-> PyNone] ELSE [response |-> "None"]

\* cur_retry at the top of an iteration of `while True`: get_openai_model_ans
\* assigns cur_retry = 0 inside the loop, get_model_ans before it
cur_retry_at_loop_top(c, cr) == IF c = "get_openai_model_ans" THEN 0 ELSE cr

\* the except clause: the client returns its null payload once cur_retry exceeds
\* retry_times, or when str(e) passes the overflow test; otherwise it sleeps
gives_up_on_retries_only(c, cr, msg) == cr > retry_times(c)
gives_up(c, cr, msg) == cr > retry_times(c) \/ is_context_overflow(c, msg)

\* one iteration of the loop whose API call succeeds: the client returns the answer
api_attempt_ok ==
    /\ cpc = "calling" /\ attempts < MaxAttempts
    /\ attempts' = attempts + 1
    /\ cur_retry' = cur_retry_at_loop_top(client, cur_retry)
    /\ lastErr' = "none"
    /\ ret' = Answer
    /\ cpc' = "returned"
    /\ UNCHANGED <<client, stream, sleeps, sleepTimes>>
    /\ FrameII

\* one iteration of the loop whose API call raises: the except clause
api_attempt_fails(msg) ==
    /\ cpc = "calling" /\ attempts < MaxAttempts
    /\ attempts' = attempts + 1
    /\ lastErr' = msg
    /\ LET cr == cur_retry_at_loop_top(client, cur_retry) + 1
       IN  /\ cur_retry' = cr
           /\ IF gives_up(client, cr, msg)
              THEN /\ ret' = null_payload(client)
                   /\ cpc' = "returned"
                   /\ UNCHANGED <<sleeps, sleepTimes>>
              ELSE /\ sleeps' = sleeps + 1
                   /\ sleepTimes' = sleepTimes \cup {sleep_time(client)}
                   /\ UNCHANGED <<ret, cpc>>
    /\ UNCHANGED <<client, stream>>
    /\ FrameII

InitClient ==
    /\ client \in Clients
    /\ stream \in BOOLEAN
    /\ cpc = "calling"
    /\ cur_retry = 0
    /\ attempts = 0
    /\ sleeps = 0
    /\ sleepTimes = {}
    /\ lastErr = "none"
    /\ ret = [response |-> "unset"]
    /\ ParkStage /\ ParkSynth /\ ParkMerge /\ ParkEnsemble /\ ParkAgent /\ ParkNorm /\ ParkSem /\ ParkGraph /\ ParkReward /\ ParkLang /\ ParkNecessity /\ ParkAug /\ ParkAugmenter /\ ParkBinding /\ ParkGather /\ ParkVerify /\ ParkWorkers /\ ParkVote

NextClient ==
    \/ api_attempt_ok
    \/ \E msg \in ErrMsgs : api_attempt_fails(msg)

SpecClient == InitClient /\ [][NextClient]_vars

(***************************************************************************)
(* Part II: claims                                                         *)
(***************************************************************************)

\* C6: a client call whose attempts all fail without a context overflow makes at
\* most API_MAX_RETRY_TIMES retries (API_MAX_RETRY_TIMES + 1 attempts), sleeps
\* API_RETRY_SLEEP_TIME between attempts, and has returned after the last one.
C6_BoundedRetries ==
    (lastErr # "none" /\ ~is_context_overflow(client, lastErr))
        => /\ attempts <= API_MAX_RETRY_TIMES + 1
           /\ sleeps <= API_MAX_RETRY_TIMES
           /\ sleepTimes \subseteq {API_RETRY_SLEEP_TIME}
           /\ (attempts = API_MAX_RETRY_TIMES + 1) => (cpc = "returned")

\* a response that stands for "no answer": None, or the string 'None'
IsNullPayload(p) == p.response \in {PyNone, "None"}

ENV_SYNTHESIS_INNER_MAX_RETRY_TIMES == 5
ENV_SYNTHESIS_OUTER_MAX_RETRY_TIMES == 15

\* strings are sequences of characters
Answers == {<<"8">>, <<"8", "4">>}
Stdouts == {<<>>, <<"8">>, <<"4", "8">>, <<"8", "4">>, <<"1", "8", "4">>}

\* what the model can generate
Docs == {"doc_A", "doc_B"}
Calls == {"call_A", "call_http"}

\* `"http" in cur_statement`
contains_http(c) == c = "call_http"
Codes == {"code_A", "code_B"}

\* classes of the "response" of one LLM call:
\*   "ok"          parses to a dict with the keys the stage requires
\*   "nokeys"      parses to a dict that lacks a required key
\*   "unparseable" parse_ans returns None
\*   "null"        the client returned response None
Replies == {"ok", "nokeys", "unparseable", "null"}

\* what the sandbox answers: a JSON body, or the POST raises
SandboxStatuses == {"Success", "Failed", "SandboxError"}
SandboxReplies == [status : SandboxStatuses, stdout : Stdouts]
SandboxRaises == [status |-> "raises", stdout |-> <<>>]

\* Python's `a in s` on strings
IsSubstring(a, s) == \E i \in 0..(Len(s) - Len(a)) : SubSeq(s, i + 1, i + Len(a)) = a

Null == [kind |-> "null"]

\* stages 1-3, one attempt: output_parsed = parse_ans(output) followed by
\* `"<key>" in output_parsed`, which raises TypeError when output_parsed is None;
\* parse_ans(None) itself raises on `"</think>" in string`
stage_attempt_outcome(reply) ==
    CASE reply = "ok" -> "parsed"
      [] reply = "nokeys" -> "retry"
      [] reply = "unparseable" -> "raise"
      [] reply = "null" -> "raise"

\* _tool_deployment, one attempt: output_parsed is None is tested before the keys
deployment_attempt_outcome(reply) ==
    CASE reply = "ok" -> "parsed"
      [] reply = "nokeys" -> "retry"
      [] reply = "unparseable" -> "retry"
      [] reply = "null" -> "raise"

\* `while output_parsed is None and try_times < ENV_SYNTHESIS_INNER_MAX_RETRY_TIMES`
stage_loop_continues(t) == t < ENV_SYNTHESIS_INNER_MAX_RETRY_TIMES

\* _single_env_synthesis: `while try_times < ENV_SYNTHESIS_INNER_MAX_RETRY_TIMES`
validation_loop_continues_one_more(t) == t <= ENV_SYNTHESIS_INNER_MAX_RETRY_TIMES
validation_loop_continues(t) == t < ENV_SYNTHESIS_INNER_MAX_RETRY_TIMES

\* synthesis_single_env: `while try_times < ENV_SYNTHESIS_OUTER_MAX_RETRY_TIMES`
outer_loop_continues(t) == t < ENV_SYNTHESIS_OUTER_MAX_RETRY_TIMES

\* _single_env_synthesis: `continue` goes back to _call_statement_generation
retry_restarts_at_doc == "doc"
retry_restart_stage == "call"

\* _tool_deployment: the code is rejected only when the sandbox says "Failed"
deploy_rejected(status) == status = "Failed"

\* _single_env_synthesis: the acceptance test of a validation execution
test_passed_status_only(status, ans, stdout) == status = "Success"
test_passed(status, ans, stdout) == status = "Success" /\ IsSubstring(ans, stdout)

\* the data of ret_dict at acceptance
ret_dict_data_stale_ans(doc, call, code, stdout) ==
    [kind |-> "ok", tool_document |-> doc, tool_call_statement |-> call,
     code |-> code, tool_call_ans |-> <<>>]
ret_dict_data(doc, call, code, stdout) ==
    [kind |-> "ok", tool_document |-> doc, tool_call_statement |-> call,
     code |-> code, tool_call_ans |-> stdout]

\* synthesis_single_env: _single_env_synthesis returned None
OuterRetry ==
    /\ outer_try' = outer_try + 1
    /\ IF outer_loop_continues(outer_try + 1)
       THEN spc' = "doc" /\ UNCHANGED result
       ELSE spc' = "returned" /\ result' = Null
    /\ inner_try' = 0 /\ llm_try' = 0
    /\ tool_document' = "none" /\ call_statement' = "none" /\ cur_code' = "none"
    /\ docGensInv' = 0 /\ scaledDocInv' = "none"

\* _single_env_synthesis: `try_times += 1; continue`, and the return of None when
\* the loop ends
InnerRetry ==
    IF validation_loop_continues(inner_try + 1)
    THEN /\ inner_try' = inner_try + 1
         /\ spc' = retry_restart_stage
         /\ llm_try' = 0
         /\ call_statement' = "none" /\ cur_code' = "none"
         /\ UNCHANGED <<outer_try, result, tool_document, docGensInv, scaledDocInv>>
    ELSE OuterRetry

\* an exception leaves synthesis_single_env: its frames and their locals are gone
Raise ==
    /\ spc' = "raised"
    /\ outer_try' = 0 /\ inner_try' = 0 /\ llm_try' = 0
    /\ tool_document' = "none" /\ call_statement' = "none" /\ cur_code' = "none"
    /\ docGensInv' = 0 /\ scaledDocInv' = "none"
    /\ UNCHANGED result

\* one more attempt of the stage function that is running
StageRetry ==
    /\ llm_try' = llm_try + 1
    /\ UNCHANGED <<spc, outer_try, inner_try, tool_document, call_statement, cur_code,
                   result, docGensInv, scaledDocInv>>

\* _tool_document_generation, one LLM attempt
tool_document_generation(reply, d) ==
    /\ spc = "doc"
    /\ LET o == stage_attempt_outcome(reply)
       IN  CASE o = "parsed" ->
                  /\ tool_document' = d /\ spc' = "scale" /\ llm_try' = 0
                  /\ UNCHANGED <<outer_try, inner_try, call_statement, cur_code, result,
                                 docGensInv, scaledDocInv>>
             [] o = "retry" ->
                  IF stage_loop_continues(llm_try + 1) THEN StageRetry ELSE OuterRetry
             [] o = "raise" -> Raise
    /\ raisedBy' = IF stage_attempt_outcome(reply) = "raise" THEN "reply" ELSE raisedBy
    /\ UNCHANGED <<answer, validations, firstValDoc, passedRuns>>
    /\ FrameIII

\* _tool_document_complexity_scaling, one LLM attempt
tool_document_complexity_scaling(reply, d) ==
    /\ spc = "scale"
    /\ LET o == stage_attempt_outcome(reply)
       IN  CASE o = "parsed" ->
                  /\ tool_document' = d /\ docGensInv' = docGensInv + 1
                  /\ scaledDocInv' = d
                  /\ spc' = "call" /\ llm_try' = 0 /\ inner_try' = 0
                  /\ UNCHANGED <<outer_try, call_statement, cur_code, result>>
             [] o = "retry" ->
                  IF stage_loop_continues(llm_try + 1) THEN StageRetry ELSE OuterRetry
             [] o = "raise" -> Raise
    /\ raisedBy' = IF stage_attempt_outcome(reply) = "raise" THEN "reply" ELSE raisedBy
    /\ UNCHANGED <<answer, validations, firstValDoc, passedRuns>>
    /\ FrameIII

\* _call_statement_generation, one LLM attempt
call_statement_generation(reply, c) ==
    /\ spc = "call"
    /\ LET o == stage_attempt_outcome(reply)
       IN  CASE o = "parsed" ->
                  /\ call_statement' = c /\ spc' = "deploy" /\ llm_try' = 0
                  /\ UNCHANGED <<outer_try, inner_try, tool_document, cur_code, result,
                                 docGensInv, scaledDocInv>>
             [] o = "retry" ->
                  IF stage_loop_continues(llm_try + 1) THEN StageRetry
                  ELSE InnerRetry
             [] o = "raise" -> Raise
    /\ raisedBy' = IF stage_attempt_outcome(reply) = "raise" THEN "reply" ELSE raisedBy
    /\ UNCHANGED <<answer, validations, firstValDoc, passedRuns>>
    /\ FrameIII

\* _tool_deployment, one LLM attempt and, when it parses, the sandbox run of the code
tool_deployment(reply, code, status) ==
    /\ spc = "deploy"
    /\ LET o == deployment_attempt_outcome(reply)
       IN  CASE o = "parsed" /\ status = "raises" -> Raise
             [] o = "parsed" /\ status # "raises" /\ ~deploy_rejected(status) ->
                  /\ cur_code' = code /\ spc' = "validate" /\ llm_try' = 0
                  /\ UNCHANGED <<outer_try, inner_try, tool_document, call_statement, result,
                                 docGensInv, scaledDocInv>>
             [] o = "retry" \/ (o = "parsed" /\ status # "raises" /\ deploy_rejected(status)) ->
                  IF stage_loop_continues(llm_try + 1) THEN StageRetry
                  ELSE InnerRetry
             [] o = "raise" -> Raise
    /\ raisedBy' = CASE deployment_attempt_outcome(reply) = "raise" -> "reply"
                      [] deployment_attempt_outcome(reply) = "parsed" /\ status = "raises" -> "sandbox"
                      [] OTHER -> raisedBy
    /\ UNCHANGED <<answer, validations, firstValDoc, passedRuns>>
    /\ FrameIII

\* _single_env_synthesis: final_code is submitted and the answer is looked for
validation(sb) ==
    /\ spc = "validate"
    /\ validations' = validations + 1
    /\ firstValDoc' = IF firstValDoc = "none" THEN tool_document ELSE firstValDoc
    /\ CASE sb = SandboxRaises ->
                  /\ Raise
                  /\ UNCHANGED passedRuns
             [] sb # SandboxRaises /\ test_passed(sb.status, answer, sb.stdout) ->
                  /\ result' = ret_dict_data(tool_document, call_statement, cur_code, sb.stdout)
                  /\ spc' = "returned"
                  /\ passedRuns' = passedRuns \cup
                        (IF sb.status = "Success" /\ IsSubstring(answer, sb.stdout)
                         THEN {[code |-> cur_code, call |-> call_statement, stdout |-> sb.stdout]}
                         ELSE {})
                  /\ UNCHANGED <<outer_try, inner_try, llm_try, tool_document,
                                 call_statement, cur_code, docGensInv, scaledDocInv>>
             [] sb # SandboxRaises /\ ~test_passed(sb.status, answer, sb.stdout) ->
                  /\ InnerRetry
                  /\ passedRuns' = passedRuns \cup
                        (IF sb.status = "Success" /\ IsSubstring(answer, sb.stdout)
                         THEN {[code |-> cur_code, call |-> call_statement, stdout |-> sb.stdout]}
                         ELSE {})
    /\ raisedBy' = IF sb = SandboxRaises THEN "sandbox" ELSE raisedBy
    /\ UNCHANGED answer
    /\ FrameIII

InitSynth ==
    /\ spc = "doc"
    /\ answer \in Answers
    /\ outer_try = 0 /\ inner_try = 0 /\ llm_try = 0
    /\ tool_document = "none" /\ call_statement = "none" /\ cur_code = "none"
    /\ result = [kind |-> "unset"]
    /\ validations = 0 /\ docGensInv = 0
    /\ firstValDoc = "none" /\ scaledDocInv = "none" /\ passedRuns = {}
    /\ raisedBy = "none"
    /\ ParkStage /\ ParkClient /\ ParkMerge /\ ParkEnsemble /\ ParkAgent /\ ParkNorm /\ ParkSem /\ ParkGraph /\ ParkReward /\ ParkLang /\ ParkNecessity /\ ParkAug /\ ParkAugmenter /\ ParkBinding /\ ParkGather /\ ParkVerify /\ ParkWorkers /\ ParkVote

\* what a reply carries: the content when it parses, nothing otherwise
Content(reply, vals) == IF reply = "ok" THEN vals ELSE {"none"}

NextSynth ==
    \/ \E reply \in Replies : \E d \in Content(reply, Docs) :
          tool_document_generation(reply, d)
    \/ \E reply \in Replies : \E d \in Content(reply, Docs) :
          tool_document_complexity_scaling(reply, d)
    \/ \E reply \in Replies : \E c \in Content(reply, Calls) :
          call_statement_generation(reply, c)
    \/ \E reply \in Replies : \E code \in Content(reply, Codes) :
          \E status \in (IF reply = "ok" THEN SandboxStatuses \cup {"raises"} ELSE {"Success"}) :
             tool_deployment(reply, code, status)
    \/ \E sb \in SandboxReplies \cup {SandboxRaises} : validation(sb)

SpecSynth == InitSynth /\ [][NextSynth]_vars

(***************************************************************************)
(* Part III: claims                                                        *)
(***************************************************************************)

\* the execution a returned result describes
ExecutionOf(r) == [code |-> r.code, call |-> r.tool_call_statement, stdout |-> r.tool_call_ans]

\* C8: the synthesizer has returned a non-null result if and only if a validation
\* execution came back with status "Success" and the answer as a substring of
\* stdout, and the code, call statement and tool_call_ans of the result are those
\* of such an execution; while it has not returned, no execution was accepted.
C8_NonNullIffAccepted ==
    /\ (spc = "returned") => (result.kind = "ok" <=> passedRuns # {})
    /\ (spc # "returned") => (result.kind = "unset" /\ passedRuns = {})
    /\ (result.kind = "ok") => ExecutionOf(result) \in passedRuns

\* a result accepted on a later validation of a later invocation, whose stdout is
\* longer than the answer it contains
C8_Witness ==
    /\ spc = "returned" /\ result.kind = "ok"
    /\ outer_try >= 1 /\ inner_try >= 1
    /\ Len(result.tool_call_ans) > Len(answer)
    /\ ExecutionOf(result) \in passedRuns

\* C9 as stated: at most ENV_SYNTHESIS_OUTER_MAX_RETRY_TIMES validation
\* executions are submitted for one QA pair, and after that many failed ones the
\* synthesizer has stopped with a null result.
C9_AtMostOuterValidations ==
    /\ validations <= ENV_SYNTHESIS_OUTER_MAX_RETRY_TIMES
    /\ (validations = ENV_SYNTHESIS_OUTER_MAX_RETRY_TIMES /\ passedRuns = {} /\ spc # "raised")
          => (spc = "returned" /\ result = Null)

\* C9 amended: synthesis_single_env invokes _single_env_synthesis at most
\* ENV_SYNTHESIS_OUTER_MAX_RETRY_TIMES times and one invocation submits at most
\* ENV_SYNTHESIS_INNER_MAX_RETRY_TIMES validation executions, so at most their
\* product is submitted for one QA pair; the result is null exactly when the last
\* invocation has failed.
C9_ValidationsPerInvocation ==
    /\ outer_try <= ENV_SYNTHESIS_OUTER_MAX_RETRY_TIMES
    /\ inner_try < ENV_SYNTHESIS_INNER_MAX_RETRY_TIMES
    /\ validations <= ENV_SYNTHESIS_INNER_MAX_RETRY_TIMES * ENV_SYNTHESIS_OUTER_MAX_RETRY_TIMES
    /\ (spc # "raised")
          => validations <= ENV_SYNTHESIS_INNER_MAX_RETRY_TIMES * outer_try + inner_try
                              + (IF result.kind = "ok" THEN 1 ELSE 0)
    /\ (outer_try = ENV_SYNTHESIS_OUTER_MAX_RETRY_TIMES) <=> (result = Null)
    /\ (result = Null) => spc = "returned"

\* every invocation has used up its validation executions and the result is null
C9_Witness ==
    /\ spc = "returned" /\ result = Null
    /\ validations = ENV_SYNTHESIS_INNER_MAX_RETRY_TIMES * ENV_SYNTHESIS_OUTER_MAX_RETRY_TIMES

\* C10 as stated: the document of the accepted result is the document that the
\* first validation execution for the QA pair used.
C10_DocOfFirstValidation ==
    (result.kind = "ok") => result.tool_document = firstValDoc

\* C10 amended: within one invocation of _single_env_synthesis the scaled
\* document is generated once and held fixed, every validation retry restarts at
\* call-statement generation, and the document of the accepted result is the one
\* that invocation generated; an outer retry generates the document again.
C10_DocFixedWithinInvocation ==
    /\ docGensInv <= 1
    /\ (spc \in {"call", "deploy", "validate"})
          => (docGensInv = 1 /\ tool_document \in Docs /\ tool_document = scaledDocInv)
    /\ (result.kind = "ok")
          => (docGensInv = 1 /\ result.tool_document = scaledDocInv)
    /\ (inner_try > 0) => spc \in {"call", "deploy", "validate", "returned"}

\* a result accepted after validation retries, in an invocation whose document
\* is not the one the first validation execution used
C10_Witness ==
    /\ result.kind = "ok" /\ inner_try >= 2 /\ outer_try >= 1
    /\ result.tool_document = scaledDocInv
    /\ result.tool_document # firstValDoc

(***************************************************************************)
(* Part III: claims on failed attempts                                     *)
(***************************************************************************)

\* C11: a stage function makes at most ENV_SYNTHESIS_INNER_MAX_RETRY_TIMES LLM
\* attempts per invocation, and a reply that is null, unparseable or lacks the
\* required keys is a failed attempt that is retried: no reply ends the run with
\* an exception.
C11_FailedReplyIsRetried ==
    /\ llm_try < ENV_SYNTHESIS_INNER_MAX_RETRY_TIMES
    /\ raisedBy # "reply"

\* C12: a sandbox call that raises is a failed attempt after which the retry loop
\* goes on: no sandbox call ends the run with an exception.
C12_SandboxFailureIsRetried ==
    raisedBy # "sandbox"

(***************************************************************************)
(* Part III: claims on the env result of a sub-question                    *)
(***************************************************************************)

\* env_synthesis: env_result[u] of the sub-question, from what
\* synthesis_single_env returned for it
env_result_entry(out, ans) ==
    IF out.kind = "ok"
    THEN [kind |-> "ok", answer |-> ans, env_synthesis_result |-> [data |-> out]]
    ELSE Null

\* C13: a non-null env result without merge_flag has its answer as a substring
\* of its env_synthesis_result.data.tool_call_ans.
C13_AnswerInToolCallAns ==
    (spc = "returned")
        => LET e == env_result_entry(result, answer)
           IN  (e.kind = "ok")
                  => IsSubstring(e.answer, e.env_synthesis_result.data.tool_call_ans)

\* an env result whose answer has two characters and is found inside a longer stdout
C13_Witness ==
    /\ spc = "returned" /\ result.kind = "ok"
    /\ Len(answer) = 2 /\ Len(result.tool_call_ans) = 3
    /\ env_result_entry(result, answer).answer = answer

\* C14: the tool_call_statement of a non-null env result produced by the
\* synthesizer does not contain "http".
C14_NoHttpInCallStatement ==
    (spc = "returned")
        => LET e == env_result_entry(result, answer)
           IN  (e.kind = "ok")
                  => ~contains_http(e.env_synthesis_result.data.tool_call_statement)

\* =====================================================================
\* Part IV: the cluster merge engine (env_synthesis/src/step_05_merge_tools.py)
\* =====================================================================

max_retry == 20     \* merge_single_cluster_code(data_dict, config, max_retry=20)

\* the sub-question uuids of the record whose env_result entry is not null
Members == 1..NumMembers

\* statuses verify_merged_code gives one test ("error" and "exception" take
\* the same branches as "failed" everywhere)
TestStatuses == {"passed", "failed", "skipped"}

Unbound == [src |-> "unbound", attempt |-> 0, of |-> 0]

\* env_result[u] of the input record, as step_04 left it (no merge_flag)
InputEnv ==
    [u \in Members |->
        [code                |-> [src |-> "orig", attempt |-> 0, of |-> u],
         tool_document       |-> [src |-> "orig", attempt |-> 0, of |-> u],
         tool_call_statement |-> [src |-> "orig", attempt |-> 0, of |-> u],
         merge_flag          |-> FALSE]]

\* the code the LLM returned in attempt k, and the call statement
\* generate_tool_call_statements made for member u in attempt k
merged_code_of(k) == [src |-> "merged", attempt |-> k, of |-> 0]
tool_call_of(k, u) == [src |-> "merged", attempt |-> k, of |-> u]

\* cluster lists a parsed reply of intent aggregation can carry: no cluster,
\* every member alone, or one cluster of several members and the rest alone
ClusterLists ==
    {{}} \cup {{{u} : u \in Members}}
         \cup {{c} \cup {{u} : u \in Members \ c} :
                   c \in {d \in SUBSET Members : Cardinality(d) > 1}}

\* merge_tools: the clusters with len(cluster["_uuids"]) > 1
multi_clusters(cl) == {c \in cl : Cardinality(c) > 1}

\* the cluster handed to merge_single_cluster_code
cluster_under_merge ==
    IF multi_clusters(clusters) = {} THEN {}
    ELSE CHOOSE c \in multi_clusters(clusters) : TRUE

\* original_qa_code[0]: the first uuid of the cluster
first_member(c) == CHOOSE u \in c : \A v \in c : u <= v

\* passed_count = sum(1 for t in test_results if t["status"] == "passed")
passed_count(st) == Cardinality({u \in DOMAIN st : st[u] = "passed"})

\* verify_merged_code: all_passed
all_passed(st) == \A u \in DOMAIN st : st[u] = "passed"

NoBest == [kind |-> "none"]

new_best_result(k, st) ==
    [kind |-> "some", merged_code |-> merged_code_of(k),
     test_results |-> [attempt |-> k, status |-> st],
     is_valid |-> all_passed(st), retry_count |-> k, modified_tool_calls |-> k]

\* a rule that keeps whatever attempt verified last
replaces_best_always(pcnt, best) == TRUE

\* "if passed_count >= best_passed_count": the attempt replaces the best one
replaces_best(pcnt, best) == pcnt >= best

\* a loop that makes one more pass
merge_loop_continues_one_more(rc) == rc <= max_retry

\* "while retry_count < max_retry"
merge_loop_continues(rc) == rc < max_retry

\* the record merge_single_cluster_code returns on success
merge_env_success(k, st, c) ==
    [status |-> "success", merged_code |-> merged_code_of(k),
     tool_document |-> InputEnv[first_member(c)].tool_document,
     tool_call_statements |-> [src |-> "merged", attempt |-> k],
     test_results |-> [attempt |-> k, status |-> st],
     keys |-> {"merged_code", "tool_document", "tool_call_statements", "verification"}]

\* the record it returns after the loop when best_result is set
merge_env_partial(br, c) ==
    [status |-> "partial_success", merged_code |-> br.merged_code,
     tool_document |-> InputEnv[first_member(c)].tool_document,
     tool_call_statements |-> [src |-> "merged", attempt |-> br.modified_tool_calls],
     test_results |-> br.test_results,
     keys |-> {"merged_code", "tool_document", "tool_call_statements", "verification"}]

\* the record it returns after the loop when no attempt reached verification:
\* no tool_document and no verification key; the call statements are those of
\* the input, since only an attempt that reaches verification overwrites them
merge_env_failed(mc, c) ==
    [status |-> "failed", merged_code |-> mc,
     tool_document |-> Unbound,
     tool_call_statements |-> [src |-> "orig", attempt |-> 0],
     test_results |-> [attempt |-> 0, status |-> [u \in c |-> "skipped"]],
     keys |-> {"merged_code", "tool_call_statements", "error"}]

\* post_process_merge_tools: the members rewritten before the loop over
\* test_results returns: the passed ones ahead of the first test not passed
rewritten_members(st) ==
    {u \in DOMAIN st : st[u] = "passed" /\ \A v \in DOMAIN st : v < u => st[v] = "passed"}

\* a rewrite that leaves the member's own call statement in place
rewrite_entry_keeps_call(e, env, u) ==
    [code                |-> env.merged_code,
     tool_document       |-> env.tool_document,
     tool_call_statement |-> e.tool_call_statement,
     merge_flag          |-> TRUE]

rewrite_entry(e, env, u) ==
    [code                |-> env.merged_code,
     tool_document       |-> env.tool_document,
     tool_call_statement |-> [src |-> env.tool_call_statements.src,
                              attempt |-> env.tool_call_statements.attempt, of |-> u],
     merge_flag          |-> TRUE]

\* post_process_merge_tools returns data only if every test passed
post_process_returns_data(st) == \A u \in DOMAIN st : st[u] = "passed"

InitMerge ==
    /\ mpc = "start"
    /\ env_kind \in {"null", "invalid", "valid"}
    /\ env_result = InputEnv
    /\ ia_attempt = 0
    /\ clusters = {}
    /\ retry_count = 0
    /\ best_result = NoBest
    /\ best_passed_count = 0
    /\ merged_code = Unbound
    /\ aggregated_env = <<>>
    /\ mret = "unset"
    /\ attemptLog = [made |-> 0, anyVerified |-> FALSE, maxPassed |-> 0]
    /\ ParkStage /\ ParkClient /\ ParkSynth /\ ParkEnsemble /\ ParkAgent /\ ParkNorm /\ ParkSem /\ ParkGraph /\ ParkReward /\ ParkLang /\ ParkNecessity /\ ParkAug /\ ParkAugmenter /\ ParkBinding /\ ParkGather /\ ParkVerify /\ ParkWorkers /\ ParkVote

\* merge_tools up to the call of intent_aggregation
merge_tools_start ==
    /\ mpc = "start"
    /\ IF env_kind = "null"
       THEN mpc' = "returned" /\ mret' = "data"
       ELSE IF env_kind = "invalid"
       THEN mpc' = "returned" /\ mret' = "null"
       ELSE mpc' = "aggregate" /\ mret' = mret
    /\ UNCHANGED <<env_kind, env_result, ia_attempt, clusters, retry_count, best_result,
                   best_passed_count, merged_code, aggregated_env, attemptLog>>
    /\ FrameIV

\* one attempt of intent_aggregation, and what merge_tools does with its
\* result up to the first call of merge_single_cluster_code.
\*   reply = "raises": no content, or content _parse_json_list_intent_aggregation
\*                     cannot turn into a dict
\*   reply = "no_key": a JSON object without a "clusters" key
\*   reply = "clusters": a JSON object whose "clusters" is cl
intent_aggregation(reply, cl) ==
    /\ mpc = "aggregate"
    /\ LET exhausted == reply = "raises" /\ ia_attempt + 1 > API_MAX_RETRY_TIMES
           returned  == reply = "clusters" \/ exhausted
           res       == IF exhausted THEN {} ELSE cl
           merges    == returned /\ multi_clusters(res) # {}
       IN  \* the frame of intent_aggregation is gone once the merge starts
           /\ ia_attempt' = IF merges THEN 0
                            ELSE IF reply = "raises" THEN ia_attempt + 1 ELSE ia_attempt
           /\ clusters' = IF returned THEN res ELSE clusters
           /\ mpc' = IF reply = "no_key" THEN "raised"
                     ELSE IF ~returned THEN "aggregate"
                     ELSE IF multi_clusters(res) = {} THEN "returned"
                     ELSE "merge"
           /\ mret' = IF returned /\ multi_clusters(res) = {} THEN "data" ELSE mret
    /\ UNCHANGED <<env_kind, env_result, retry_count, best_result, best_passed_count,
                   merged_code, aggregated_env, attemptLog>>
    /\ FrameIV

\* one pass of the while loop of merge_single_cluster_code, together with the
\* return that follows the loop when this pass ends it.
\*   kind = "raise_early": raises before merged_code is assigned
\*   kind = "raise_late":  raises in generate_tool_call_statements
\*   kind = "verified":    verify_merged_code returns the statuses st
merge_single_cluster_code(kind, st) ==
    /\ mpc = "merge"
    /\ merge_loop_continues(retry_count)
    /\ LET k        == retry_count
           c        == cluster_under_merge
           verified == kind = "verified"
           pcnt     == passed_count(st)
           takes    == verified /\ replaces_best(pcnt, best_passed_count)
           br       == IF takes THEN new_best_result(k, st) ELSE best_result
           mc       == IF kind = "raise_early" THEN merged_code ELSE merged_code_of(k)
           valid    == verified /\ all_passed(st)
           rc       == IF valid THEN k ELSE k + 1
           ends     == valid \/ ~merge_loop_continues(rc)
           env      == IF valid THEN merge_env_success(k, st, c)
                       ELSE IF br # NoBest THEN merge_env_partial(br, c)
                       ELSE merge_env_failed(mc, c)
           unbound  == ends /\ ~valid /\ br = NoBest /\ mc = Unbound
       IN  /\ retry_count' = rc
           /\ best_result' = br
           /\ best_passed_count' = IF takes THEN pcnt ELSE best_passed_count
           /\ merged_code' = mc
           /\ attemptLog' = [made |-> attemptLog.made + 1,
                             anyVerified |-> attemptLog.anyVerified \/ verified,
                             maxPassed |-> IF verified /\ pcnt > attemptLog.maxPassed
                                           THEN pcnt ELSE attemptLog.maxPassed]
           /\ aggregated_env' = IF ends /\ ~unbound THEN <<env>> ELSE aggregated_env
           /\ mpc' = IF unbound THEN "raised" ELSE IF ends THEN "post" ELSE "merge"
    /\ UNCHANGED <<env_kind, env_result, ia_attempt, clusters, mret>>
    /\ FrameIV

\* post_process_merge_tools and the lines of merge_tools after it
post_process_merge_tools ==
    /\ mpc = "post"
    /\ LET env == aggregated_env[1]
           st  == env.test_results.status
       IN  IF ~({"tool_document", "verification"} \subseteq env.keys)
           THEN \* KeyError on cur_aggregated_env["tool_document"]
                /\ mpc' = "raised"
                /\ UNCHANGED <<env_result, mret>>
           ELSE /\ env_result' = [u \in Members |->
                                     IF u \in rewritten_members(st)
                                     THEN rewrite_entry(env_result[u], env, u)
                                     ELSE env_result[u]]
                /\ IF post_process_returns_data(st)
                   THEN mpc' = "returned" /\ mret' = "data"
                   ELSE \* data is None and the next log line reads data['uuid']
                        mpc' = "raised" /\ mret' = mret
    /\ UNCHANGED <<env_kind, ia_attempt, clusters, retry_count, best_result,
                   best_passed_count, merged_code, aggregated_env, attemptLog>>
    /\ FrameIV

NextMerge ==
    \/ merge_tools_start
    \/ \E reply \in {"raises", "no_key", "clusters"} : \E cl \in ClusterLists :
           intent_aggregation(reply, cl)
    \/ \E kind \in {"raise_early", "raise_late", "verified"} :
       \E st \in [cluster_under_merge -> TestStatuses] :
           merge_single_cluster_code(kind, st)
    \/ post_process_merge_tools

SpecMerge == InitMerge /\ [][NextMerge]_vars

\* C15: for a multi-member cluster the merge engine makes at most 20
\* merge-and-verify attempts, raising attempts included; it goes on only while
\* fewer than 20 were made and none passed every member; it returns success
\* at the first attempt that passes every member, and otherwise it stops
\* after the 20th attempt.
C15_AtMostTwentyAttempts ==
    LET all == Cardinality(cluster_under_merge)
    IN  /\ attemptLog.made <= max_retry
        /\ (mpc = "merge")
              => attemptLog.made < max_retry /\ attemptLog.maxPassed < all
        /\ (attemptLog.made > 0 /\ mpc # "merge")
              => IF attemptLog.maxPassed = all
                 THEN /\ aggregated_env # <<>>
                      /\ aggregated_env[1].status = "success"
                      /\ aggregated_env[1].test_results.attempt = attemptLog.made - 1
                      /\ all_passed(aggregated_env[1].test_results.status)
                 ELSE /\ attemptLog.made = max_retry
                      /\ aggregated_env # <<>> => aggregated_env[1].status # "success"

\* the 20th attempt is the first to pass every member
C15_Witness ==
    /\ aggregated_env # <<>>
    /\ aggregated_env[1].status = "success"
    /\ attemptLog.made = max_retry
    /\ best_result.retry_count = max_retry - 1
    /\ merged_code = merged_code_of(max_retry - 1)

\* the loop of merge_single_cluster_code is over and no attempt passed every member
merge_not_converged ==
    /\ attemptLog.made > 0 /\ mpc # "merge"
    /\ attemptLog.maxPassed < Cardinality(cluster_under_merge)

\* the cluster's result is labelled partial_success, its passed-count is the
\* largest of all attempts made, and its merged code, test results and call
\* statements are those of one and the same attempt
reports_best_attempt ==
    /\ aggregated_env # <<>>
    /\ LET env == aggregated_env[1]
       IN  /\ env.status = "partial_success"
           /\ passed_count(env.test_results.status) = attemptLog.maxPassed
           /\ env.merged_code = merged_code_of(env.test_results.attempt)
           /\ env.tool_call_statements = [src |-> "merged", attempt |-> env.test_results.attempt]

\* C16 as stated: when no merge attempt passes all members, the result
\* reported for the cluster is labelled partial_success and is that of an
\* attempt whose passed-count is the maximum over all attempts made, with
\* code, test results and call statements from that one attempt.
C16_PartialSuccessIsBestAttempt ==
    merge_not_converged => reports_best_attempt

\* C16 amended: that holds when at least one attempt reached verification;
\* when every attempt raised there is no best attempt, and the result is
\* labelled failed, or no result is produced at all when no attempt got as
\* far as assigning merged_code.
C16_BestAttemptWhenOneVerified ==
    merge_not_converged
        => IF attemptLog.anyVerified
           THEN reports_best_attempt
           ELSE aggregated_env # <<>> => aggregated_env[1].status = "failed"

\* partial_success reporting an attempt that is not the last one made
C16_Witness ==
    /\ merge_not_converged /\ reports_best_attempt
    /\ attemptLog.maxPassed = 1
    /\ aggregated_env[1].test_results.attempt = 3
    /\ merged_code = merged_code_of(max_retry - 1)

\* C17: if the merge of a multi-member cluster never converges, the cluster's
\* status is failed and merge_tools still returns the record, which carries
\* the cluster's result; it neither drops the record nor raises.
C17_NotConvergedIsRetained ==
    (merge_not_converged /\ mpc # "post")
        => /\ mpc = "returned" /\ mret = "data"
           /\ aggregated_env # <<>>
           /\ aggregated_env[1].status = "failed"

\* post_process_merge_tools has met a test that did not pass
post_process_found_mismatch ==
    /\ mpc \notin {"start", "aggregate", "merge", "post"}
    /\ aggregated_env # <<>>
    /\ "verification" \in aggregated_env[1].keys
    /\ ~post_process_returns_data(aggregated_env[1].test_results.status)

\* C18: if post-processing finds a test of a merged cluster whose stdout lacks
\* the expected answer, merge_tools returns null for the record and does not
\* raise.
C18_MismatchReturnsNull ==
    post_process_found_mismatch => (mpc = "returned" /\ mret = "null")

\* intent aggregation has not given merge_tools a cluster list: every attempt
\* raised, or the reply parsed to an object without a "clusters" key
aggregation_failed ==
    \/ ia_attempt > API_MAX_RETRY_TIMES
    \/ mpc = "raised" /\ attemptLog.made = 0

\* C19: if intent aggregation fails to yield a parsable cluster list, the
\* result has no clusters, no merge is attempted, and merge_tools returns the
\* record with every env_result entry identical to its input value.
C19_AggregationFailureReturnsInput ==
    aggregation_failed
        => /\ clusters = {} /\ attemptLog.made = 0 /\ aggregated_env = <<>>
           /\ mpc = "returned" /\ mret = "data"
           /\ env_result = InputEnv

\* C20: in every record merge_tools returns, every member of a multi-member
\* cluster whose cluster test passed has an env result that carries the
\* cluster's merged code, the merged tool document (that of the cluster's
\* first member), the call statement generated for that member in the
\* reported attempt, and merge_flag = true.
C20_PassedMembersAreRewritten ==
    (mpc = "returned" /\ mret = "data" /\ env_kind = "valid")
        => \A c \in multi_clusters(clusters) :
              /\ aggregated_env # <<>>
              /\ LET env == aggregated_env[1]
                     k   == env.test_results.attempt
                 IN  \A u \in c :
                        (env.test_results.status[u] = "passed")
                            => /\ env_result[u].code = merged_code_of(k)
                               /\ env_result[u].tool_document
                                      = InputEnv[first_member(c)].tool_document
                               /\ env_result[u].tool_call_statement = tool_call_of(k, u)
                               /\ env_result[u].merge_flag

\* a returned record whose cluster of all members was merged at the third attempt
C20_Witness ==
    /\ mpc = "returned" /\ mret = "data"
    /\ clusters = {Members}
    /\ aggregated_env # <<>>
    /\ aggregated_env[1].test_results.attempt = 2
    /\ \A u \in Members : env_result[u].merge_flag /\ env_result[u].code = merged_code_of(2)

\* =====================================================================
\* Part V: the judge ensembles (env_synthesis/src/step_03_verify.py verify_all,
\*         trajectory_synthesis/src/4_reward/reward.py reward_all)
\* =====================================================================

SAFE_DEPENDENCY_SCORE == 1
SAFE_ATOMICITY_SCORE == 1
SAFE_FORCED_SERIAL_SCORE == 1
SAFE_ALIGNMENT_SCORE == 1
SAFE_TOOL_CONCISE_SCORE == 1
SAFE_FINAL_ANSWER_SCORE_CORRELATION == 1
SAFE_TOOL_CALL_SCORE == 1
SAFE_TOOL_CONTENT_PLAN_SCORE == 1
SAFE_TOOL_CONTENT_UNDERSTAND_SCORE == 1
SAFE_GLOBAL_PLAN_SCORE == 1

\* result_names of verify_all and of reward_all
VerifyJudges == {"dependency", "data_quality", "forced_serialization", "completeness"}
RewardJudges == {"tool_concise", "final_answer", "tool_call", "tool_plan",
                 "tool_understand", "query_understand", "query_plan"}

result_names(e) == IF e = "verify" THEN VerifyJudges ELSE RewardJudges

\* the safe default of each component
safe_default(j) ==
    CASE j = "dependency"           -> SAFE_DEPENDENCY_SCORE
      [] j = "data_quality"         -> SAFE_ATOMICITY_SCORE
      [] j = "forced_serialization" -> SAFE_FORCED_SERIAL_SCORE
      [] j = "completeness"         -> SAFE_ALIGNMENT_SCORE
      [] j = "tool_concise"         -> SAFE_TOOL_CONCISE_SCORE
      [] j = "final_answer"         -> SAFE_FINAL_ANSWER_SCORE_CORRELATION
      [] j = "tool_call"            -> SAFE_TOOL_CALL_SCORE
      [] j = "tool_plan"            -> SAFE_TOOL_CONTENT_PLAN_SCORE
      [] j = "tool_understand"      -> SAFE_TOOL_CONTENT_UNDERSTAND_SCORE
      [] OTHER                      -> SAFE_GLOBAL_PLAN_SCORE

\* scores an actual judgement gives
JudgedScores == {0, 1}

\* what can happen inside one judge: the model's reply is judged with score s,
\* the judge receives the client's null payload, or something in it raises
JudgeInputs ==
    {[kind |-> "judged", score |-> s] : s \in JudgedScores}
        \cup {[kind |-> "null", score |-> 0], [kind |-> "raises", score |-> 0]}

Pending == [kind |-> "pending", score |-> 0, is_safe_score |-> 0]
AnException == [kind |-> "exception", score |-> 0, is_safe_score |-> 0]
payload(s, f) == [kind |-> "payload", score |-> s, is_safe_score |-> f]

\* get_tool_concise indexes the payload (res[0]) outside any try
null_payload_raises(j) == j = "tool_concise"

\* judges whose payload for a null reply carries is_safe_score = 1 nowhere:
\* get_tool_call_score counts the call as successful (TOOL_CALL_TOOL_STATUS),
\* get_tools_understand averages the per-segment defaults and keeps only the
\* segments' extra_info
null_payload_unflagged(j) == j \in {"tool_call", "tool_understand"}

\* what the judge's coroutine gives asyncio.gather(return_exceptions=True)
judge_result(j, in) ==
    CASE in.kind = "judged" -> payload(in.score, 0)
      [] in.kind = "raises" -> AnException
      [] OTHER -> IF null_payload_raises(j) THEN AnException
                  ELSE payload(safe_default(j), IF null_payload_unflagged(j) THEN 0 ELSE 1)

\* an entry that scores a failed judge 0
exception_entry_zero == payload(0, 1)

\* the entry verify_all / reward_all write for a judge whose result is an exception
exception_entry == payload(1, 1)

\* final_results[name] for one gathered result
final_entry(r) == IF r.kind = "exception" THEN exception_entry ELSE r

RECURSIVE SumScores(_, _)
SumScores(f, S) ==
    IF S = {} THEN 0
    ELSE LET j == CHOOSE x \in S : TRUE IN f[j].score + SumScores(f, S \ {j})

InitEnsemble ==
    /\ ensemble \in {"verify", "reward"}
    /\ epc = "gather"
    /\ results = [j \in result_names(ensemble) |-> Pending]
    /\ judgeInput = [j \in result_names(ensemble) |-> [kind |-> "pending", score |-> 0]]
    /\ final_results = <<>>
    /\ overall = [num |-> 0, den |-> 0]
    /\ ParkStage /\ ParkClient /\ ParkSynth /\ ParkMerge /\ ParkAgent /\ ParkNorm /\ ParkSem /\ ParkGraph /\ ParkReward /\ ParkLang /\ ParkNecessity /\ ParkAug /\ ParkAugmenter /\ ParkBinding /\ ParkGather /\ ParkVerify /\ ParkWorkers /\ ParkVote

\* one judge of the gather finishes
judge_completes(j, in) ==
    /\ epc = "gather"
    /\ results[j] = Pending
    /\ results' = [results EXCEPT ![j] = judge_result(j, in)]
    /\ judgeInput' = [judgeInput EXCEPT ![j] = in]
    /\ UNCHANGED <<ensemble, epc, final_results, overall>>
    /\ FrameV

\* the lines of verify_all / reward_all after the gather
ensemble_aggregate ==
    /\ epc = "gather"
    /\ \A j \in DOMAIN results : results[j] # Pending
    /\ LET fr == [j \in DOMAIN results |-> final_entry(results[j])]
       IN  /\ final_results' = fr
           /\ overall' = [num |-> SumScores(fr, DOMAIN fr), den |-> Cardinality(DOMAIN fr)]
    /\ epc' = "done"
    /\ UNCHANGED <<ensemble, results, judgeInput>>
    /\ FrameV

NextEnsemble ==
    \/ \E j \in result_names(ensemble) : \E in \in JudgeInputs : judge_completes(j, in)
    \/ ensemble_aggregate

SpecEnsemble == InitEnsemble /\ [][NextEnsemble]_vars

\* C21: in both judge ensembles, a judge that raises or receives the null
\* payload is scored with its component's safe default, every other judge
\* keeps the score it gave, and the aggregate is produced: the mean of the
\* scores over all judges.
C21_JudgeFailureIsContained ==
    (epc = "done")
          => /\ \A j \in result_names(ensemble) :
                   final_results[j].score
                      = IF judgeInput[j].kind = "judged" THEN judgeInput[j].score
                        ELSE safe_default(j)
             /\ overall.den = Cardinality(result_names(ensemble))
             /\ overall.num = SumScores(final_results, result_names(ensemble))

\* reward_all done: tool_concise got the null payload, final_answer raised,
\* tool_call judged 0 and the rest judged 1
C21_Witness ==
    /\ ensemble = "reward" /\ epc = "done"
    /\ judgeInput["tool_concise"].kind = "null"
    /\ judgeInput["final_answer"].kind = "raises"
    /\ judgeInput["tool_call"] = [kind |-> "judged", score |-> 0]
    /\ overall = [num |-> 6, den |-> 7]

\* C22: whenever the score a judge returns comes from a failure path and not
\* from an actual judgement, the payload returned for it carries
\* is_safe_score = 1.
C22_FailurePathIsFlagged ==
    (epc = "done")
        => \A j \in result_names(ensemble) :
              (judgeInput[j].kind # "judged") => final_results[j].is_safe_score = 1

\* =====================================================================
\* Part VI: one agent task (trajectory_synthesis/src/3_interaction/interact_qwen_agent.py)
\* =====================================================================

MaxResponses == 3   \* messages the agent yields in one task

NoneResponses == [none |-> TRUE, list |-> <<>>]
SomeResponses(l) == [none |-> FALSE, list |-> l]

\* messages agent.run can yield
AgentMessages == {[role |-> "assistant", content |-> "text"],
                  [role |-> "tool", content |-> "text"]}

\* process_item / process_items_parallel: the message put in on failure
error_message == [role |-> "assistant", content |-> "[ERROR: ...]"]

\* process_item_async: messages before the agent runs
built_messages(sp) ==
    (IF sp THEN <<[role |-> "system", content |-> "text"]>> ELSE <<>>)
        \o <<[role |-> "user", content |-> "text"]>>

\* process_item_async from "return messages + responses" on, and process_item
\* around it: list + None raises TypeError, which process_item turns into a
\* trajectory of the error message alone
trajectory_returned(sp, rs) ==
    IF rs.none THEN <<error_message>> ELSE built_messages(sp) \o rs.list

InitAgent ==
    /\ apc = "start"
    /\ system_prompt \in BOOLEAN
    /\ responses = NoneResponses
    /\ record = <<>>
    /\ howEnded = "none"
    /\ ParkStage /\ ParkClient /\ ParkSynth /\ ParkMerge /\ ParkEnsemble /\ ParkNorm /\ ParkSem /\ ParkGraph /\ ParkReward /\ ParkLang /\ ParkNecessity /\ ParkAug /\ ParkAugmenter /\ ParkBinding /\ ParkGather /\ ParkVerify /\ ParkWorkers /\ ParkVote

\* process_item up to the start of agent.run; create_agent may return None,
\* and the ValueError raised for it is caught by process_item
create_agent(ok) ==
    /\ apc = "start"
    /\ IF ok
       THEN apc' = "running" /\ UNCHANGED <<record, howEnded>>
       ELSE apc' = "written" /\ record' = <<error_message>> /\ howEnded' = "raised"
    /\ UNCHANGED <<system_prompt, responses>>
    /\ FrameVI

\* one iteration of "for responses in agent.run(messages=messages)": the list
\* yielded holds the messages so far and (grow) one more
agent_yields(grow, m) ==
    /\ apc = "running"
    /\ Len(responses.list) < MaxResponses
    /\ responses' = SomeResponses(IF grow THEN Append(responses.list, m) ELSE responses.list)
    /\ UNCHANGED <<apc, system_prompt, record, howEnded>>
    /\ FrameVI

\* agent.run ends; the task returns and its record is written.  Empty
\* responses raise ValueError inside the try of process_item_async, which
\* only prints it
agent_run_ends ==
    /\ apc = "running"
    /\ record' = trajectory_returned(system_prompt, responses)
    /\ howEnded' = IF responses.none \/ responses.list = <<>> THEN "raised" ELSE "ok"
    /\ apc' = "written"
    /\ UNCHANGED <<system_prompt, responses>>
    /\ FrameVI

\* agent.run raises part-way: process_item_async prints the exception and
\* goes on to "return messages + responses"
agent_run_raises ==
    /\ apc = "running"
    /\ record' = trajectory_returned(system_prompt, responses)
    /\ howEnded' = "raised"
    /\ apc' = "written"
    /\ UNCHANGED <<system_prompt, responses>>
    /\ FrameVI

\* the timeout of process_item strikes: future.result() raises and
\* process_items_parallel writes the item with the error message alone
process_item_times_out ==
    /\ apc = "running"
    /\ record' = <<error_message>>
    /\ howEnded' = "timeout"
    /\ apc' = "written"
    /\ UNCHANGED <<system_prompt, responses>>
    /\ FrameVI

NextAgent ==
    \/ \E ok \in BOOLEAN : create_agent(ok)
    \/ \E grow \in BOOLEAN : \E m \in AgentMessages : agent_yields(grow, m)
    \/ agent_run_ends
    \/ agent_run_raises
    \/ process_item_times_out

SpecAgent == InitAgent /\ [][NextAgent]_vars

\* C23: for every agent task that timed out or raised, also part-way through
\* the agent's run, the record written has a trajectory whose last message is
\* an assistant message with content "[ERROR: ...]".
C23_FailedTaskEndsWithErrorMessage ==
    (apc = "written" /\ howEnded \in {"raised", "timeout"})
        => /\ record # <<>>
           /\ record[Len(record)] = error_message

\* =====================================================================
\* Part VII: message normalization
\*   (trajectory_synthesis/src/3_interaction/qwen_agent/llm/oai.py convert_messages_to_dicts,
\*    trajectory_synthesis/src/utils/api_client.py normalize_messages_for_api)
\* =====================================================================

MaxMsgs == 5        \* longest message list normalized

ToolNames == {"f", "g"}

\* a tool call id: f"call_{idx}_{name}", f"call_{idx}", or an id the caller gave
NoId == [idx |-> 0 - 1, name |-> "none"]
GivenIds == {[idx |-> 7, name |-> "given_a"], [idx |-> 7, name |-> "given_b"]}

Msg(r, fc, n, tcs, tcid) ==
    [role |-> r, function_call |-> fc, name |-> n, tool_calls |-> tcs, tool_call_id |-> tcid]

\* messages of the agent: user, assistant text, assistant with one
\* function_call, function result
QwenMessages ==
    {Msg("user", FALSE, "", <<>>, NoId), Msg("assistant", FALSE, "", <<>>, NoId)}
        \cup {Msg("assistant", TRUE, n, <<>>, NoId) : n \in ToolNames}
        \cup {Msg("function", FALSE, n, <<>>, NoId) : n \in ToolNames}

\* messages of get_model_ans's history: tool calls with or without an id,
\* tool messages with or without a tool_call_id
ApiToolCalls ==
    {<<[id |-> NoId, name |-> "f"]>>,
     <<[id |-> [idx |-> 7, name |-> "given_a"], name |-> "f"]>>,
     <<[id |-> NoId, name |-> "f"], [id |-> NoId, name |-> "g"]>>}

ApiMessages ==
    {Msg("user", FALSE, "", <<>>, NoId), Msg("assistant", FALSE, "", <<>>, NoId)}
        \cup {Msg("assistant", FALSE, "", tcs, NoId) : tcs \in ApiToolCalls}
        \cup {Msg("tool", FALSE, "", <<>>, id) : id \in {NoId} \cup GivenIds}

SeqsUpTo(S, n) == UNION {[1..k -> S] : k \in 1..n}

\* number of consecutive assistant messages with a function_call from position i on
RECURSIVE FcRun(_, _)
FcRun(ms, i) ==
    IF i <= Len(ms) /\ ms[i].role = "assistant" /\ ms[i].function_call
    THEN 1 + FcRun(ms, i + 1) ELSE 0

\* a lookup that takes the id of the message's own position
find_tool_call_id_by_position(conv, j, n) == [idx |-> j, name |-> n]

\* the tool_call_id convert_messages_to_dicts finds for a function message
\* named n: it walks converted_messages backwards and takes, in the nearest
\* assistant message that has a call named n, the first such call
RECURSIVE find_tool_call_id(_, _, _)
find_tool_call_id(conv, j, n) ==
    IF j = 0 THEN NoId
    ELSE LET hits == {k \in 1..Len(conv[j].tool_calls) : conv[j].tool_calls[k].name = n}
         IN  IF conv[j].role = "assistant" /\ hits # {}
             THEN conv[j].tool_calls[CHOOSE k \in hits : \A h \in hits : k <= h].id
             ELSE find_tool_call_id(conv, j - 1, n)

RECURSIVE convert_from(_, _, _)
convert_from(ms, i, conv) ==
    IF i > Len(ms) THEN conv
    ELSE LET m == ms[i]
         IN  IF m.role = "assistant"
             THEN LET n == FcRun(ms, i + 1)
                      tool_call_list ==
                          [k \in 1..n |-> [id |-> [idx |-> k - 1, name |-> ms[i + k].name],
                                           name |-> ms[i + k].name]]
                  IN  convert_from(ms, i + n + 1,
                                   Append(conv, [m EXCEPT !.tool_calls = tool_call_list]))
             ELSE IF m.role = "function"
             THEN convert_from(ms, i + 1,
                               Append(conv, [m EXCEPT !.role = "tool",
                                                      !.tool_call_id =
                                                          find_tool_call_id(conv, Len(conv), m.name)]))
             ELSE convert_from(ms, i + 1, Append(conv, m))

convert_messages_to_dicts(ms) == convert_from(ms, 1, <<>>)

\* get_model_ans.to_api_tool_calls: tc.get('id') or f"call_{idx}"
to_api_tool_calls(tcs) ==
    [k \in 1..Len(tcs) |->
        [id |-> IF tcs[k].id # NoId THEN tcs[k].id ELSE [idx |-> k - 1, name |-> ""],
         name |-> tcs[k].name]]

RECURSIVE normalize_from(_, _, _, _)
normalize_from(ms, i, last_assistant_tool_id, norm) ==
    IF i > Len(ms) THEN norm
    ELSE LET m == ms[i]
             api_calls == to_api_tool_calls(m.tool_calls)
             calls == m.role = "assistant" /\ m.tool_calls # <<>>
             last == IF calls THEN api_calls[1].id ELSE last_assistant_tool_id
             nm == [m EXCEPT !.tool_calls = IF calls THEN api_calls ELSE <<>>,
                             !.tool_call_id =
                                 IF m.role = "tool"
                                 THEN (IF m.tool_call_id # NoId THEN m.tool_call_id ELSE last)
                                 ELSE NoId]
         IN  normalize_from(ms, i + 1, last, Append(norm, nm))

normalize_messages_for_api(ms) == normalize_from(ms, 1, NoId, <<>>)

InitNorm ==
    /\ fmt \in {"qwen", "api"}
    /\ msgs \in SeqsUpTo(IF fmt = "qwen" THEN QwenMessages ELSE ApiMessages, MaxMsgs)
    /\ npc = "input"
    /\ normalized = <<>>
    /\ ParkStage /\ ParkClient /\ ParkSynth /\ ParkMerge /\ ParkEnsemble /\ ParkAgent /\ ParkSem /\ ParkGraph /\ ParkReward /\ ParkLang /\ ParkNecessity /\ ParkAug /\ ParkAugmenter /\ ParkBinding /\ ParkGather /\ ParkVerify /\ ParkWorkers /\ ParkVote

convert_call ==
    /\ npc = "input" /\ fmt = "qwen"
    /\ normalized' = convert_messages_to_dicts(msgs)
    /\ npc' = "done"
    /\ UNCHANGED <<fmt, msgs>>
    /\ FrameVII

normalize_call ==
    /\ npc = "input" /\ fmt = "api"
    /\ normalized' = normalize_messages_for_api(msgs)
    /\ npc' = "done"
    /\ UNCHANGED <<fmt, msgs>>
    /\ FrameVII

NextNorm == convert_call \/ normalize_call

SpecNorm == InitNorm /\ [][NextNorm]_vars

\* the ids of the tool calls of the assistant messages before position k
earlier_call_ids(l, k) ==
    {l[j].tool_calls[c].id : <<j, c>> \in
        {p \in (1..(k - 1)) \X (1..MaxMsgs) :
            l[p[1]].role = "assistant" /\ p[2] <= Len(l[p[1]].tool_calls)}}

answers_earlier_call(k) ==
    IF fmt = "qwen"
    THEN \E p \in 2..(k - 1) :
            /\ msgs[p].role = "assistant" /\ msgs[p].function_call
            /\ msgs[p].name = msgs[k].name
            /\ msgs[p - 1].role = "assistant"
    ELSE /\ msgs[k].tool_call_id = NoId
         /\ \E p \in 1..(k - 1) : msgs[p].role = "assistant" /\ msgs[p].tool_calls # <<>>

\* position in the output of the input message at position k
out_position(k) ==
    IF fmt = "api" THEN k
    ELSE k - Cardinality({p \in 2..(k - 1) :
                             /\ msgs[p].role = "assistant" /\ msgs[p].function_call
                             /\ msgs[p - 1].role = "assistant"})

parallel_batch(p, k) ==
    /\ normalized[p].role = "assistant" /\ Len(normalized[p].tool_calls) = k
    /\ p + k <= Len(normalized)
    /\ \A c \in 1..k : normalized[p + c].role = "tool"
    /\ (p + k < Len(normalized)) => normalized[p + k + 1].role # "tool"

\* the c-th tool message of the batch answers the c-th call: the agent's
\* function results come in the order of the calls and carry their names, the
\* API history's tool messages come in the order of the calls without an id
answers_in_order(p, k) ==
    \A c \in 1..k :
        IF fmt = "qwen"
        THEN normalized[p + c].name = normalized[p].tool_calls[c].name
        ELSE \E q \in 1..Len(msgs) :
                /\ out_position(q) = p + c /\ msgs[q].role = "tool"
                /\ msgs[q].tool_call_id = NoId

\* C38: when an assistant turn issues k parallel tool calls and k tool
\* messages follow it, the normalized tool messages carry k pairwise distinct
\* tool_call_ids, the c-th the id of the c-th call, also when two calls of the
\* batch name the same tool.
C38_ParallelCallsGetDistinctIds ==
    (npc = "done")
        => \A p \in 1..Len(normalized) : \A k \in 2..MaxMsgs :
              (parallel_batch(p, k) /\ answers_in_order(p, k))
                  => /\ \A c \in 1..k :
                          normalized[p + c].tool_call_id = normalized[p].tool_calls[c].id
                     /\ \A c, d \in 1..k :
                          c # d => normalized[p + c].tool_call_id # normalized[p + d].tool_call_id

\* =====================================================================
\* Part VIII: named semaphores per event loop
\*   (trajectory_synthesis/src/utils/semaphore_config.py,
\*    env_synthesis/src/step_03_verify.py main)
\* =====================================================================

MaxLoops == 3       \* asyncio.run calls of one process
MaxSems == 4        \* semaphore objects created in one process

SemNames == {"default", "verify"}
ConcurrencyLimits == {1, 2, 5}

\* values id() can give to an event loop: unique among the objects alive at
\* the same time, so the id of a closed and freed loop can be given again
LoopIds == {1, 2}

NoLoop == [loop |-> 0, id |-> 0]
NoSemaphore == [sem |-> 0, value |-> 0, made_in |-> 0, loop_id |-> 0 - 1]
NoCall == [name |-> "", in_loop |-> 0, sem |-> 0, made_in |-> 0]

\* id(current_loop), None (0) outside a running loop
current_loop_id == running_loop.id

\* the cached semaphore is returned when its recorded loop id is the current one
cache_hit(name) ==
    /\ _semaphores[name] # NoSemaphore
    /\ _semaphores[name].loop_id = current_loop_id

InitSem ==
    /\ _semaphores = [n \in SemNames |-> NoSemaphore]
    /\ _max_concurrent = 5
    /\ running_loop = NoLoop
    /\ loops_made = 0
    /\ sems_made = 0
    /\ got = NoCall
    /\ ParkStage /\ ParkClient /\ ParkSynth /\ ParkMerge /\ ParkEnsemble /\ ParkAgent /\ ParkNorm /\ ParkGraph /\ ParkReward /\ ParkLang /\ ParkNecessity /\ ParkAug /\ ParkAugmenter /\ ParkBinding /\ ParkGather /\ ParkVerify /\ ParkWorkers /\ ParkVote

init_semaphore(max_concurrent) ==
    /\ _max_concurrent' = max_concurrent
    /\ _semaphores' = [n \in SemNames |-> NoSemaphore]
    /\ UNCHANGED <<running_loop, loops_made, sems_made, got>>
    /\ FrameVIII

\* asyncio.run creates a new event loop and runs the coroutine in it
asyncio_run_starts(i) ==
    /\ running_loop = NoLoop
    /\ loops_made < MaxLoops
    /\ loops_made' = loops_made + 1
    /\ running_loop' = [loop |-> loops_made + 1, id |-> i]
    /\ UNCHANGED <<_semaphores, _max_concurrent, sems_made, got>>
    /\ FrameVIII

\* asyncio.run closes its loop when the coroutine is done
asyncio_run_ends ==
    /\ running_loop # NoLoop
    /\ running_loop' = NoLoop
    /\ UNCHANGED <<_semaphores, _max_concurrent, loops_made, sems_made, got>>
    /\ FrameVIII

get_semaphore(name) ==
    IF cache_hit(name)
    THEN /\ got' = [name |-> name, in_loop |-> running_loop.loop,
                    sem |-> _semaphores[name].sem, made_in |-> _semaphores[name].made_in]
         /\ UNCHANGED <<_semaphores, _max_concurrent, running_loop, loops_made, sems_made>>
         /\ FrameVIII
    ELSE /\ sems_made < MaxSems
         /\ sems_made' = sems_made + 1
         /\ _semaphores' = [_semaphores EXCEPT ![name] =
                               [sem |-> sems_made + 1, value |-> _max_concurrent,
                                made_in |-> running_loop.loop, loop_id |-> current_loop_id]]
         /\ got' = [name |-> name, in_loop |-> running_loop.loop,
                    sem |-> sems_made + 1, made_in |-> running_loop.loop]
         /\ UNCHANGED <<_max_concurrent, running_loop, loops_made>>
         /\ FrameVIII

NextSem ==
    \/ \E mc \in ConcurrencyLimits : init_semaphore(mc)
    \/ \E i \in LoopIds : asyncio_run_starts(i)
    \/ asyncio_run_ends
    \/ \E n \in SemNames : get_semaphore(n)

SpecSem == InitSem /\ [][NextSem]_vars

\* C25: get_semaphore called inside a running event loop returns a semaphore
\* that was created for that same loop, never one created under another
\* (possibly closed) loop.
C25_SemaphoreBelongsToRunningLoop ==
    (got # NoCall /\ got.in_loop # 0) => got.made_in = got.in_loop

\* =====================================================================
\* Part IX: tool graph and sub-chain extraction
\*   (trajectory_synthesis/src/1_graph_build/build/data_loader.py,
\*    trajectory_synthesis/src/1_graph_build/build/2_get_sub_chains.py)
\* =====================================================================

MaxChainLen == 3    \* longest detected chain
MaxChains == 2      \* detected chains of one server
MaxLength == 3      \* largest max_length of an extraction

GraphTools == {"a", "b", "c"}
ToolLists == {<<"a">>, <<"a", "b">>, <<"a", "b", "c">>}

Range(f) == {f[i] : i \in DOMAIN f}

\* Node.add_next: appended unless a successor of that name is there
add_next(nx, last, cur) ==
    IF cur \in Range(nx[last]) THEN nx ELSE [nx EXCEPT ![last] = Append(nx[last], cur)]

\* the loop over one chain of build_graph: a tool that is not a node is
\* skipped with continue, last_node keeping its value
RECURSIVE build_chain(_, _, _, _)
build_chain(nx, chain, i, last_node) ==
    IF i > Len(chain) THEN nx
    ELSE LET tool_name == chain[i]
         IN  IF tool_name \notin DOMAIN nx
             THEN build_chain(nx, chain, i + 1, last_node)
             ELSE build_chain(IF last_node # "" THEN add_next(nx, last_node, tool_name) ELSE nx,
                              chain, i + 1, tool_name)

RECURSIVE build_chains(_, _, _)
build_chains(nx, cs, k) ==
    IF k > Len(cs) THEN nx ELSE build_chains(build_chain(nx, cs[k], 1, ""), cs, k + 1)

build_graph(tl, cs) == build_chains([n \in Range(tl) |-> <<>>], cs, 1)

\* get_chain.dfs: the chains of the given remaining length that extend chain
\* from node, successors in list order
RECURSIVE dfs(_, _, _, _, _)
dfs(nx, chain, node, length, k) ==
    IF length = 0 THEN <<chain>>
    ELSE IF k > Len(nx[node]) THEN <<>>
    ELSE dfs(nx, Append(chain, nx[node][k]), nx[node][k], length - 1, 1)
            \o dfs(nx, chain, node, length, k + 1)

get_chain(nx, node, length) == dfs(nx, <<node>>, node, length - 1, 1)

RECURSIVE get_chins_from_graph(_, _, _, _)
get_chins_from_graph(nx, tl, length, k) ==
    IF k > Len(tl) THEN <<>>
    ELSE get_chain(nx, tl[k], length) \o get_chins_from_graph(nx, tl, length, k + 1)

RECURSIVE extract_sub_chains(_, _, _, _)
extract_sub_chains(nx, tl, length, max_length) ==
    IF length > max_length THEN <<>>
    ELSE get_chins_from_graph(nx, tl, length, 1) \o extract_sub_chains(nx, tl, length + 1, max_length)

InitGraph ==
    /\ gpc = "input"
    /\ tool_list \in ToolLists
    /\ chains \in SeqsUpTo(SeqsUpTo(GraphTools, MaxChainLen), MaxChains)
    /\ nexts = <<>>
    /\ lengths = <<>>
    /\ sub_chains = <<>>
    /\ ParkStage /\ ParkClient /\ ParkSynth /\ ParkMerge /\ ParkEnsemble /\ ParkAgent /\ ParkNorm /\ ParkSem /\ ParkReward /\ ParkLang /\ ParkNecessity /\ ParkAug /\ ParkAugmenter /\ ParkBinding /\ ParkGather /\ ParkVerify /\ ParkWorkers /\ ParkVote

load_data_and_build_graph ==
    /\ gpc = "input"
    /\ nexts' = build_graph(tool_list, chains)
    /\ gpc' = "built"
    /\ UNCHANGED <<tool_list, chains, lengths, sub_chains>>
    /\ FrameIX

get_sub_chains(min_length, max_length) ==
    /\ gpc = "built"
    /\ lengths' = <<min_length, max_length>>
    /\ sub_chains' = extract_sub_chains(nexts, tool_list, min_length, max_length)
    /\ gpc' = "extracted"
    /\ UNCHANGED <<tool_list, chains, nexts>>
    /\ FrameIX

NextGraph ==
    \/ load_data_and_build_graph
    \/ \E l \in 1..MaxLength : \E u \in l..MaxLength : get_sub_chains(l, u)

SpecGraph == InitGraph /\ [][NextGraph]_vars

has_edge(a, b) == b \in Range(nexts[a])

\* the paths of the graph with no tool occurring twice and a length in [l, u]
simple_paths(l, u) ==
    {q \in SeqsUpTo(Range(tool_list), u) :
        /\ Len(q) >= l
        /\ \A i \in 1..(Len(q) - 1) : has_edge(q[i], q[i + 1])
        /\ \A i, j \in 1..Len(q) : i # j => q[i] # q[j]}

\* C26: the emitted sub-chains are exactly the simple paths of the graph whose
\* length lies in [min_length, max_length], each emitted exactly once.
C26_SubChainsAreSimplePaths ==
    (gpc = "extracted")
        => /\ Range(sub_chains) = simple_paths(lengths[1], lengths[2])
           /\ \A i, j \in 1..Len(sub_chains) : i # j => sub_chains[i] # sub_chains[j]

adjacent_in_some_chain(a, b) ==
    \E k \in 1..Len(chains) : \E i \in 1..(Len(chains[k]) - 1) :
        chains[k][i] = a /\ chains[k][i + 1] = b

\* C27: the graph has an edge a -> b if and only if a and b occur at
\* consecutive positions of some detected chain.
C27_EdgeIffAdjacentInChain ==
    (gpc # "input")
        => \A a, b \in Range(tool_list) : has_edge(a, b) <=> adjacent_in_some_chain(a, b)

\* =====================================================================
\* Part X: plan segments and tool-call score of a trajectory
\*   (trajectory_synthesis/src/4_reward/reward.py
\*    _split_trj_tool_content_plan, get_tools_plan_score, get_tool_call_score)
\* =====================================================================

MaxTraj == 5        \* longest trajectory scored

\* a message of a trajectory: its role, whether it has (non-empty)
\* tool_calls, whether it has a (non-empty) tool_call_id
TMsg(r, tcs, tcid) == [role |-> r, tool_calls |-> tcs, tool_call_id |-> tcid]

TrajectoryMessages ==
    {TMsg("user", FALSE, FALSE), TMsg("assistant", FALSE, FALSE), TMsg("assistant", TRUE, FALSE),
     TMsg("tool", FALSE, TRUE), TMsg("tool", FALSE, FALSE)}

\* get_tool_call_score reads trajectory[1]: a trajectory has two messages or more
Trajectories == {t \in SeqsUpTo(TrajectoryMessages, MaxTraj) : Len(t) >= 2}

\* what _get_LLM_tool_status gives for one tool message
StatusOutcomes == {"true", "false", "exception"}

TOOL_CALL_TOOL_STATUS == TRUE

NoPayload == [num |-> 0, den |-> 0, success_times |-> 0, fail_times |-> 0, is_safe_score |-> 0]

\* any(m.get("role") == "tool" for m in messages[idx + 1:])
tool_follows_always(ms, idx) == TRUE

tool_follows(ms, idx) == \E j \in (idx + 1)..Len(ms) : ms[j].role = "tool"

\* the checks of the loop of _split_trj_tool_content_plan on the message at
\* position idx (positions from 1)
is_plan_segment(ms, idx) ==
    /\ ms[idx].role = "assistant"
    /\ idx # 1
    /\ ms[idx - 1].role = "tool"
    /\ ms[idx].tool_calls
    /\ tool_follows(ms, idx)

RECURSIVE _split_trj_tool_content_plan(_, _)
_split_trj_tool_content_plan(ms, idx) ==
    IF idx > Len(ms) THEN <<>>
    ELSE (IF is_plan_segment(ms, idx) THEN <<idx>> ELSE <<>>)
            \o _split_trj_tool_content_plan(ms, idx + 1)

\* the tool messages get_tool_call_score hands to the status judge
judged_tool_messages(ms) == {k \in 1..Len(ms) : ms[k].role = "tool" /\ ms[k].tool_call_id}

\* tool_status.get('tool_status') of a result; an exception counts as TOOL_CALL_TOOL_STATUS
status_truthy(r) == IF r = "exception" THEN TOOL_CALL_TOOL_STATUS ELSE r = "true"

\* a score that gives a failed call no weight
tool_call_score_unweighted(res) ==
    LET total_success == Cardinality({k \in DOMAIN res : status_truthy(res[k])})
        total_calls == Cardinality(DOMAIN res)
    IN  IF total_calls > 0
        THEN [num |-> total_success, den |-> total_calls,
              success_times |-> total_success, fail_times |-> total_calls - total_success,
              is_safe_score |-> 0]
        ELSE [num |-> SAFE_TOOL_CALL_SCORE, den |-> 1,
              success_times |-> 0, fail_times |-> 0, is_safe_score |-> 1]

\* score (1.0 * total_success + 0.5 * total_fail) / total_calls as the
\* fraction num / den
tool_call_score(res) ==
    LET total_success == Cardinality({k \in DOMAIN res : status_truthy(res[k])})
        total_fail == Cardinality({k \in DOMAIN res : ~status_truthy(res[k])})
        total_calls == total_success + total_fail
    IN  IF total_calls > 0
        THEN [num |-> 2 * total_success + total_fail, den |-> 2 * total_calls,
              success_times |-> total_success, fail_times |-> total_fail, is_safe_score |-> 0]
        ELSE [num |-> SAFE_TOOL_CALL_SCORE, den |-> 1,
              success_times |-> 0, fail_times |-> 0, is_safe_score |-> 1]

InitReward ==
    /\ rpc = "input"
    /\ trajectory \in Trajectories
    /\ segments = <<>>
    /\ tool_status_results = <<>>
    /\ tool_call_payload = NoPayload
    /\ ParkStage /\ ParkClient /\ ParkSynth /\ ParkMerge /\ ParkEnsemble /\ ParkAgent /\ ParkNorm /\ ParkSem /\ ParkGraph /\ ParkLang /\ ParkNecessity /\ ParkAug /\ ParkAugmenter /\ ParkBinding /\ ParkGather /\ ParkVerify /\ ParkWorkers /\ ParkVote

get_tools_plan_score ==
    /\ rpc = "input"
    /\ segments' = _split_trj_tool_content_plan(trajectory, 1)
    /\ rpc' = "planned"
    /\ UNCHANGED <<trajectory, tool_status_results, tool_call_payload>>
    /\ FrameX

get_tool_call_score(res) ==
    /\ rpc = "input"
    /\ tool_status_results' = res
    /\ tool_call_payload' = tool_call_score(res)
    /\ rpc' = "scored"
    /\ UNCHANGED <<trajectory, segments>>
    /\ FrameX

NextReward ==
    \/ get_tools_plan_score
    \/ \E res \in [judged_tool_messages(trajectory) -> StatusOutcomes] : get_tool_call_score(res)

SpecReward == InitReward /\ [][NextReward]_vars

\* assistant messages that are not the first message, immediately follow a
\* tool message and carry tool_calls
planning_messages ==
    {k \in 2..Len(trajectory) :
        /\ trajectory[k].role = "assistant"
        /\ trajectory[k - 1].role = "tool"
        /\ trajectory[k].tool_calls}

each_once(q) == \A i, j \in 1..Len(q) : i # j => q[i] # q[j]

tool_messages == {k \in 1..Len(trajectory) : trajectory[k].role = "tool"}

\* score = (S + F/2) / T and S + F = T, for S, F the success and fail counts
score_is_weighted_mean(T) ==
    /\ tool_call_payload.success_times + tool_call_payload.fail_times = T
    /\ tool_call_payload.num * 2 * T
          = (2 * tool_call_payload.success_times + tool_call_payload.fail_times) * tool_call_payload.den
    /\ tool_call_payload.success_times
          = Cardinality({k \in DOMAIN tool_status_results : status_truthy(tool_status_results[k])})

\* C30 as stated: for a trajectory with at least one tool message the
\* tool-call score is (1.0*S + 0.5*F) / T with T the number of tool messages,
\* S the number judged successful, F the number judged failed, S + F = T.
C30_ScoreOverToolMessages ==
    (rpc = "scored" /\ tool_messages # {})
        => score_is_weighted_mean(Cardinality(tool_messages))

\* C30 amended: T counts the tool messages that carry a tool_call_id; when
\* there is none the score is the safe score, flagged.
C30_ScoreOverIdentifiedToolMessages ==
    (rpc = "scored" /\ tool_messages # {})
        => IF judged_tool_messages(trajectory) # {}
           THEN /\ score_is_weighted_mean(Cardinality(judged_tool_messages(trajectory)))
                /\ tool_call_payload.is_safe_score = 0
           ELSE /\ tool_call_payload.num = SAFE_TOOL_CALL_SCORE * tool_call_payload.den
                /\ tool_call_payload.is_safe_score = 1

\* three tool messages, one judged failed: score 2.5 / 3
C30_Witness ==
    /\ rpc = "scored"
    /\ Cardinality(tool_messages) = 3 /\ Cardinality(judged_tool_messages(trajectory)) = 3
    /\ tool_call_payload.success_times = 2 /\ tool_call_payload.fail_times = 1
    /\ tool_call_payload.num = 5 /\ tool_call_payload.den = 6

\* =====================================================================
\* Part XI: language check of the final-final_answer correlation judge
\*   (trajectory_synthesis/src/4_reward/reward.py
\*    _check_language_consistency_final_answer,
\*    _evaluate_final_answer_correlation_final_answer)
\* =====================================================================

MaxChars == 4       \* most characters of one kind in a text

\* a text, by what detect_language counts in it: characters in
\* U+4E00..U+9FFF, other alphabetic characters, characters that are neither
Texts == [chinese_chars : 0..MaxChars, english_chars : 0..MaxChars, other_chars : 0..1]

\* chinese_ratio > 0.6 and english_ratio > 0.7 over total_chars, in tenths
detect_language(text) ==
    LET total_chars == text.chinese_chars + text.english_chars
    IN  IF text.chinese_chars + text.english_chars + text.other_chars = 0 THEN "unknown"
        ELSE IF total_chars = 0 THEN "unknown"
        ELSE IF 10 * text.chinese_chars > 6 * total_chars THEN "zh"
        ELSE IF 10 * text.english_chars > 7 * total_chars THEN "en"
        ELSE "mixed"

\* a check that finds every pair of texts consistent
language_always_consistent(q, a) == 1

_check_language_consistency_final_answer(q, a) ==
    LET query_lang == detect_language(q)
        answer_lang == detect_language(a)
    IN  IF query_lang = "unknown" \/ answer_lang = "unknown" THEN 1
        ELSE IF query_lang = answer_lang THEN 1
        ELSE 0

\* what the judge model's reply parses to
CorrelationReplies == {[parsed |-> TRUE, score |-> sc] : sc \in JudgedScores}
                         \cup {[parsed |-> FALSE, score |-> 0]}

NoCorrelation == [score |-> 0 - 1, is_safe_score |-> 0, language_inconsistency |-> FALSE]

InitLang ==
    /\ lpc = "input"
    /\ query \in Texts
    /\ final_answer \in Texts
    /\ llm_calls = 0
    /\ correlation = NoCorrelation
    /\ ParkStage /\ ParkClient /\ ParkSynth /\ ParkMerge /\ ParkEnsemble /\ ParkAgent /\ ParkNorm /\ ParkSem /\ ParkGraph /\ ParkReward /\ ParkNecessity /\ ParkAug /\ ParkAugmenter /\ ParkBinding /\ ParkGather /\ ParkVerify /\ ParkWorkers /\ ParkVote

_evaluate_final_answer_correlation_final_answer(reply) ==
    /\ lpc = "input"
    /\ lpc' = "done"
    /\ IF _check_language_consistency_final_answer(query, final_answer) = 0
       THEN /\ correlation' = [score |-> 0, is_safe_score |-> 0, language_inconsistency |-> TRUE]
            /\ llm_calls' = llm_calls
       ELSE /\ llm_calls' = llm_calls + 1
            /\ correlation' =
                  IF reply.parsed
                  THEN [score |-> reply.score, is_safe_score |-> 0, language_inconsistency |-> FALSE]
                  ELSE [score |-> SAFE_FINAL_ANSWER_SCORE_CORRELATION, is_safe_score |-> 1,
                        language_inconsistency |-> FALSE]
    /\ UNCHANGED <<query, final_answer>>
    /\ FrameXI

NextLang == \E reply \in CorrelationReplies : _evaluate_final_answer_correlation_final_answer(reply)

SpecLang == InitLang /\ [][NextLang]_vars

\* C29: when the user query is detected as English and the final final_answer as
\* Chinese, the correlation judge returns score 0.0 and makes no LLM call.
C29_EnglishQueryChineseAnswerScoresZero ==
    (lpc = "done" /\ detect_language(query) = "en" /\ detect_language(final_answer) = "zh")
        => /\ correlation.score = 0
           /\ correlation.language_inconsistency
           /\ llm_calls = 0

\* an English query with a digit in it, an final_answer three quarters Chinese
C29_Witness ==
    /\ lpc = "done"
    /\ query = [chinese_chars |-> 0, english_chars |-> 4, other_chars |-> 1]
    /\ final_answer = [chinese_chars |-> 3, english_chars |-> 1, other_chars |-> 0]
    /\ correlation.score = 0 /\ llm_calls = 0

\* =====================================================================
\* Part XII: tool necessity of the steps of a decomposition
\*   (env_synthesis/src/step_02_check_tool_necessity.py check_necessity)
\* =====================================================================

NumSteps == 3       \* steps of one decomposition trace

max_retries == 3

StepIds == 1..NumSteps

\* dependency of step i: a list of uuids of earlier steps, or something that
\* is not a list (null, "null")
Dependencies(i) == {[is_list |-> TRUE, uuids |-> d] : d \in SUBSET (1..(i - 1))}
                      \cup {[is_list |-> FALSE, uuids |-> {}]}

\* a reply that parses to as many items as there are steps: for each item,
\* whether its _uuid is that of the step at its position, and its
\* tool_necessity (never read when the _uuid does not match)
ReplyItems == [uuid_matches : {TRUE}, tool_necessity : BOOLEAN]
                 \cup {[uuid_matches |-> FALSE, tool_necessity |-> FALSE]}
NecessityReplies == [StepIds -> ReplyItems]

\* a reply that is not used: empty, "None", or of another length
UnusableReply == [i \in StepIds |-> [uuid_matches |-> FALSE, tool_necessity |-> FALSE]]

\* lines 119-124: items are applied in order up to the first uuid mismatch
first_mismatch(reply) ==
    IF \A i \in StepIds : reply[i].uuid_matches THEN NumSteps + 1
    ELSE CHOOSE i \in StepIds : ~reply[i].uuid_matches /\ \A j \in 1..(i - 1) : reply[j].uuid_matches

apply_reply(trace, reply) ==
    [i \in StepIds |->
        IF i < first_mismatch(reply)
        THEN [trace[i] EXCEPT !.tool_necessity = IF reply[i].tool_necessity THEN "true" ELSE "false"]
        ELSE trace[i]]

\* lines 128-132
non_leaf_uuids(trace) ==
    UNION {trace[i].dependency.uuids : i \in {j \in StepIds : trace[j].dependency.is_list}}

\* a legitimacy that never looks at the steps
legitimacy_granted(trace) == "true"

\* lines 126-137
legitimacy(trace) ==
    IF \E i \in StepIds : i \in non_leaf_uuids(trace) /\ trace[i].tool_necessity # "true"
    THEN "false" ELSE "true"

InitNecessity ==
    /\ tpc = "calling"
    /\ decomposition_trace \in
          {t \in [StepIds -> [dependency : UNION {Dependencies(i) : i \in StepIds},
                              tool_necessity : {"absent"}]] :
              \A i \in StepIds : t[i].dependency \in Dependencies(i)}
    /\ cn_attempt = 0
    /\ tool_necessity_legitimacy = "unset"
    /\ cnEnded = "no"
    /\ ParkStage /\ ParkClient /\ ParkSynth /\ ParkMerge /\ ParkEnsemble /\ ParkAgent /\ ParkNorm /\ ParkSem /\ ParkGraph /\ ParkReward /\ ParkLang /\ ParkAug /\ ParkAugmenter /\ ParkBinding /\ ParkGather /\ ParkVerify /\ ParkWorkers /\ ParkVote

\* one pass of the while loop whose reply is applied to every step
check_necessity_accepts(reply) ==
    /\ tpc = "calling"
    /\ first_mismatch(reply) = NumSteps + 1
    /\ decomposition_trace' = apply_reply(decomposition_trace, reply)
    /\ tool_necessity_legitimacy' = legitimacy(apply_reply(decomposition_trace, reply))
    /\ tpc' = "done"
    /\ cnEnded' = "accepted"
    /\ UNCHANGED cn_attempt
    /\ FrameXII

\* one pass that raises: no usable reply (len_ok false), or a uuid mismatch
\* after the items before it were applied
check_necessity_raises(len_ok, reply) ==
    /\ tpc = "calling"
    /\ len_ok => first_mismatch(reply) <= NumSteps
    /\ decomposition_trace' = IF len_ok THEN apply_reply(decomposition_trace, reply)
                              ELSE decomposition_trace
    /\ cn_attempt' = cn_attempt + 1
    /\ IF cn_attempt + 1 > max_retries
       THEN /\ tool_necessity_legitimacy' = "false"
            /\ tpc' = "done"
            /\ cnEnded' = "gave_up"
       ELSE UNCHANGED <<tool_necessity_legitimacy, tpc, cnEnded>>
    /\ FrameXII

NextNecessity ==
    \/ \E reply \in NecessityReplies : check_necessity_accepts(reply)
    \/ \E reply \in NecessityReplies : check_necessity_raises(TRUE, reply)
    \/ check_necessity_raises(FALSE, UnusableReply)

SpecNecessity == InitNecessity /\ [][NextNecessity]_vars

\* every step listed in the dependency of some other step has tool_necessity = true
dependencies_are_necessary ==
    \A i \in StepIds :
        (\E j \in StepIds \ {i} :
            decomposition_trace[j].dependency.is_list /\ i \in decomposition_trace[j].dependency.uuids)
            => decomposition_trace[i].tool_necessity = "true"

\* C31 as stated: after the step, tool_necessity_legitimacy is true if and
\* only if every step listed in the dependency of some other step has
\* tool_necessity = true.
C31_LegitimacyIffDependenciesNecessary ==
    (tpc = "done") => (tool_necessity_legitimacy = "true" <=> dependencies_are_necessary)

\* C31 amended: the equivalence holds when a reply of the model was applied;
\* when every attempt failed, legitimacy is false whatever the steps hold.
C31_LegitimacyIffNecessaryWhenAccepted ==
    (tpc = "done")
        => IF cnEnded = "accepted"
           THEN tool_necessity_legitimacy = "true" <=> dependencies_are_necessary
           ELSE tool_necessity_legitimacy = "false" /\ cn_attempt = max_retries + 1

\* step 3 depends on steps 1 and 2, step 2 is judged not to need a tool:
\* legitimacy is false after an accepted reply
C31_Witness ==
    /\ tpc = "done" /\ cnEnded = "accepted"
    /\ decomposition_trace[3].dependency = [is_list |-> TRUE, uuids |-> {1, 2}]
    /\ decomposition_trace[1].tool_necessity = "true"
    /\ decomposition_trace[2].tool_necessity = "false"
    /\ tool_necessity_legitimacy = "false"

\* =====================================================================
\* Part XIII: the question handed to the synthesizer for each sub-question
\*   (env_synthesis/src/step_04_env_synthesis.py env_synthesis)
\* =====================================================================

NumTraceSteps == 2  \* steps of the record handed to env_synthesis

TraceIds == 1..NumTraceSteps
DanglingUuid == 9   \* a uuid that is no step of the record

\* dependency of a step: None / "null" / "None" / "" (kind none), a list of
\* uuids, or one bare uuid
DependencyValues ==
    {[kind |-> "none", uuids |-> <<>>]}
        \cup {[kind |-> "list", uuids |-> l] :
                 l \in {<<>>, <<1>>, <<DanglingUuid>>, <<1, DanglingUuid>>, <<2, 1>>, <<1, 1>>}}
        \cup {[kind |-> "bare", uuids |-> <<u>>] : u \in {1, DanglingUuid}}

TraceSteps == [hop_level : {1, 2}, dependency : DependencyValues, tool_necessity : BOOLEAN]

NotHanded == [sub_question |-> 0, additional_information |-> FALSE, ref_samples |-> <<>>]

\* a lookup that finds every uuid
in_uuid_map_always(u) == TRUE

\* dep_uuid in uuid_map
in_uuid_map(u) == u \in TraceIds

\* lines 373-391: the dependencies that resolve, in order; the pair of step
\* u is (sub_question, sub_answer) of step u
RECURSIVE ref_samples_of(_, _)
ref_samples_of(uuids, k) ==
    IF k > Len(uuids) THEN <<>>
    ELSE (IF in_uuid_map(uuids[k]) THEN <<uuids[k]>> ELSE <<>>) \o ref_samples_of(uuids, k + 1)

\* lines 359-411: q_a_pairs["question"] of step u
question_of(trace, u) ==
    LET dependency == trace.dependency
        ref_samples == ref_samples_of(dependency.uuids, 1)
    IN  IF trace.hop_level = 1
        THEN [sub_question |-> u, additional_information |-> FALSE, ref_samples |-> <<>>]
        ELSE IF dependency.kind # "none" /\ dependency.uuids # <<>>
        THEN (IF ref_samples # <<>>
              THEN [sub_question |-> u, additional_information |-> TRUE, ref_samples |-> ref_samples]
              ELSE [sub_question |-> u, additional_information |-> FALSE, ref_samples |-> <<>>])
        ELSE [sub_question |-> u, additional_information |-> FALSE, ref_samples |-> <<>>]

InitAug ==
    /\ aug_pc = "input"
    /\ data_dict \in [TraceIds -> TraceSteps]
    /\ q_a_handed = [u \in TraceIds |-> NotHanded]
    /\ step_env_result = [u \in TraceIds |-> "unset"]
    /\ ParkStage /\ ParkClient /\ ParkSynth /\ ParkMerge /\ ParkEnsemble /\ ParkAgent /\ ParkNorm /\ ParkSem /\ ParkGraph /\ ParkReward /\ ParkLang /\ ParkNecessity /\ ParkAugmenter /\ ParkBinding /\ ParkGather /\ ParkVerify /\ ParkWorkers /\ ParkVote

\* the whole loop; synthesized[u] is whether synthesis_single_env returned a result
env_synthesis(synthesized) ==
    /\ aug_pc = "input"
    /\ \A u \in TraceIds : ~data_dict[u].tool_necessity => ~synthesized[u]
    /\ q_a_handed' = [u \in TraceIds |->
                         IF data_dict[u].tool_necessity THEN question_of(data_dict[u], u) ELSE NotHanded]
    /\ step_env_result' = [u \in TraceIds |-> IF synthesized[u] THEN "result" ELSE "none"]
    /\ aug_pc' = "done"
    /\ UNCHANGED data_dict
    /\ FrameXIII

NextAug == \E synthesized \in [TraceIds -> BOOLEAN] : env_synthesis(synthesized)

SpecAug == InitAug /\ [][NextAug]_vars

has_dependency(u) == data_dict[u].dependency.kind # "none" /\ data_dict[u].dependency.uuids # <<>>

\* the dependencies of step u that are steps of the record, in order
resolving_dependencies(u) ==
    LET d == data_dict[u].dependency.uuids
        F[k \in 0..Len(d)] ==
            IF k = 0 THEN <<>>
            ELSE IF d[k] \in TraceIds THEN Append(F[k - 1], d[k]) ELSE F[k - 1]
    IN  F[Len(d)]

\* C32 as stated: a sub-question with hop_level > 1 and a non-empty dependency
\* is handed over followed by an Additional Information section listing
\* exactly the pairs of the dependencies that resolve; one with hop_level 1
\* or no dependency is handed over unaugmented.
C32_QuestionIsAugmentedWithResolvedPairs ==
    (aug_pc = "done")
        => \A u \in TraceIds :
              data_dict[u].tool_necessity
                  => IF data_dict[u].hop_level > 1 /\ has_dependency(u)
                     THEN /\ q_a_handed[u].additional_information
                          /\ q_a_handed[u].ref_samples = resolving_dependencies(u)
                     ELSE ~q_a_handed[u].additional_information

\* C32 amended: the section is there only when at least one dependency
\* resolves; with none resolving the sub-question is handed over unaugmented.
C32_QuestionIsAugmentedWhenSomePairResolves ==
    (aug_pc = "done")
        => \A u \in TraceIds :
              data_dict[u].tool_necessity
                  => /\ q_a_handed[u].sub_question = u
                     /\ IF data_dict[u].hop_level > 1 /\ has_dependency(u)
                           /\ resolving_dependencies(u) # <<>>
                        THEN /\ q_a_handed[u].additional_information
                             /\ q_a_handed[u].ref_samples = resolving_dependencies(u)
                        ELSE /\ ~q_a_handed[u].additional_information
                             /\ q_a_handed[u].ref_samples = <<>>

\* step 2 at hop level 2 depends on step 1 and on a uuid that is no step:
\* its question lists the pair of step 1 alone
C32_Witness ==
    /\ aug_pc = "done"
    /\ data_dict[2] = [hop_level |-> 2, dependency |-> [kind |-> "list", uuids |-> <<1, DanglingUuid>>],
                       tool_necessity |-> TRUE]
    /\ q_a_handed[2] = [sub_question |-> 2, additional_information |-> TRUE, ref_samples |-> <<1>>]
    /\ data_dict[1].hop_level = 1 /\ data_dict[1].tool_necessity
    /\ ~q_a_handed[1].additional_information

\* =====================================================================
\* Part XIV: parsed output of the query augmenter
\*   (trajectory_synthesis/src/2_task_construction/gen/1_3_augment_query.py
\*    parse_augmentation_response, parse_augmentation_to_results, gen)
\* =====================================================================

NumQueries == 3     \* queries submitted to the augmenter
MaxVariations == 3  \* variations in one reply

AugQueries == 1..NumQueries

\* the model's reply: not a text (None, empty), a text with so many
\* <variation> elements, or a text whose parsing raises
AugReplies == {[kind |-> "not_text", variations |-> 0], [kind |-> "raises", variations |-> 0]}
                 \cup {[kind |-> "text", variations |-> n] : n \in 0..MaxVariations}

\* parse_augmentation_response: None unless the text yields a variation
parse_augmentation_response(reply) ==
    IF reply.kind = "text" /\ reply.variations > 0
    THEN [parsed |-> TRUE, variations |-> reply.variations]
    ELSE [parsed |-> FALSE, variations |-> 0]

\* parse_augmentation_to_results: None (no record), or the original query
\* with augmented_query_info = {} followed by one record per variation
parse_augmentation_to_results(q, reply) ==
    LET parsed == parse_augmentation_response(reply)
    IN  IF ~parsed.parsed THEN <<>>
        ELSE <<[query |-> q, augmented_query_info |-> "empty"]>>
                \o [k \in 1..parsed.variations |-> [query |-> q, augmented_query_info |-> "variation"]]

InitAugmenter ==
    /\ aq_done = {}
    /\ out_file_parsed = [q \in AugQueries |-> <<>>]
    /\ ParkStage /\ ParkClient /\ ParkSynth /\ ParkMerge /\ ParkEnsemble /\ ParkAgent /\ ParkNorm /\ ParkSem /\ ParkGraph /\ ParkReward /\ ParkLang /\ ParkNecessity /\ ParkAug /\ ParkBinding /\ ParkGather /\ ParkVerify /\ ParkWorkers /\ ParkVote

\* multi_call's loop body for the response to one query
augment_query_result(q, reply) ==
    /\ q \notin aq_done
    /\ aq_done' = aq_done \cup {q}
    /\ out_file_parsed' = [out_file_parsed EXCEPT ![q] = parse_augmentation_to_results(q, reply)]
    /\ FrameXIV

NextAugmenter == \E q \in AugQueries : \E reply \in AugReplies : augment_query_result(q, reply)

SpecAugmenter == InitAugmenter /\ [][NextAugmenter]_vars

\* C33: for every query submitted, the parsed output holds a record of the
\* original query with augmented_query_info = {}, whatever the model replied.
C33_OriginalQueryAlwaysEmitted ==
    \A q \in aq_done :
        \E k \in 1..Len(out_file_parsed[q]) :
            out_file_parsed[q][k] = [query |-> q, augmented_query_info |-> "empty"]

\* =====================================================================
\* Part XV: the tool binding create_agent gives the agent
\*   (trajectory_synthesis/src/3_interaction/interact_qwen_agent.py
\*    is_aistudio_mcp, build_smithery_mcp_url, create_agent)
\* =====================================================================

\* call_info: mock_tool absent, true or false; whether it has headers; its
\* python_sdk_url (empty, without or with a profile= parameter); the
\* python_sdk_config (empty string, JSON string, dict, anything else); the
\* server name; and args.smithery_profile
CallInfos ==
    [mock_tool : {"absent", "true", "false"},
     headers : BOOLEAN,
     python_sdk_url : {"", "url", "url?profile="},
     python_sdk_config : {"", "json", "dict", "other"},
     server_name : {"my server", "server"},
     smithery_profile : {"", "p"}]

NoAgent == [binding |-> "none", server |-> "", url |-> "", sse_read_timeout |-> 0]

is_aistudio_mcp(ci) == ci.headers

\* the url create_agent gets from build_smithery_mcp_url: "" for None,
\* &profile= appended when a profile is given and the url has none
build_smithery_mcp_url(ci) ==
    IF ci.python_sdk_url = "" THEN ""
    ELSE IF ci.smithery_profile # "" /\ ci.python_sdk_url # "url?profile="
    THEN "url&profile="
    ELSE ci.python_sdk_url

safe_server_name(ci) == IF ci.server_name = "my server" THEN "my-server" ELSE "server"

\* line 164: "mock_tool" not in call_info
mock_tool_not_in(ci) == ci.mock_tool = "absent"

tools_of(ci) ==
    IF mock_tool_not_in(ci)
    THEN IF is_aistudio_mcp(ci)
         THEN [binding |-> "streamable-http", server |-> safe_server_name(ci),
               url |-> "call_info.url", sse_read_timeout |-> 30]
         ELSE IF build_smithery_mcp_url(ci) = "" THEN NoAgent
         ELSE [binding |-> "streamable-http", server |-> safe_server_name(ci),
               url |-> build_smithery_mcp_url(ci), sse_read_timeout |-> 300]
    ELSE [binding |-> "mock_tool", server |-> "", url |-> "", sse_read_timeout |-> 0]

InitBinding ==
    /\ bpc = "input"
    /\ call_info \in CallInfos
    /\ function_list = NoAgent
    /\ ParkStage /\ ParkClient /\ ParkSynth /\ ParkMerge /\ ParkEnsemble /\ ParkAgent /\ ParkNorm /\ ParkSem /\ ParkGraph /\ ParkReward /\ ParkLang /\ ParkNecessity /\ ParkAug /\ ParkAugmenter /\ ParkGather /\ ParkVerify /\ ParkWorkers /\ ParkVote

create_agent_tools ==
    /\ bpc = "input"
    /\ function_list' = tools_of(call_info)
    /\ bpc' = "done"
    /\ UNCHANGED call_info
    /\ FrameXV

NextBinding == create_agent_tools

SpecBinding == InitBinding /\ [][NextBinding]_vars

\* C34: the agent is given a mock tool binding if and only if
\* call_info.mock_tool is true; when mock_tool is absent or false it is given
\* a streamable-http MCP client configuration.
C34_MockBindingIffMockToolTrue ==
    (bpc = "done")
        => IF call_info.mock_tool = "true"
           THEN function_list.binding = "mock_tool"
           ELSE function_list.binding = "streamable-http"

\* =====================================================================
\* Part XVI: coroutines run through gather_with_semaphore
\*   (trajectory_synthesis/src/utils/semaphore_config.py
\*    run_with_semaphore, gather_with_semaphore; the registry is Part VIII's)
\* =====================================================================

NumCoros == 3       \* coroutines submitted in one process

Coros == 1..NumCoros

NotSubmitted == [at |-> "new", name |-> "", sem |-> 0]

\* everything but the registry and the coroutines
FrameGather ==
    UNCHANGED <<stageVars, clientVars, synthVars, mergeVars, ensembleVars, agentVars, normVars,
                graphVars, rewardVars, langVars, necessityVars, augVars, augmenterVars, bindingVars,
                verifyVars, workerVars, voteVars>>

\* Semaphore.acquire enters without waiting when _value > 0
can_enter_always(v) == TRUE

can_enter(v) == v > 0

\* the semaphore get_semaphore(name) returns: the cached one or a new one
semaphore_for(name) == IF cache_hit(name) THEN _semaphores[name].sem ELSE sems_made + 1

InitGather ==
    /\ _semaphores = [n \in SemNames |-> NoSemaphore]
    /\ _max_concurrent \in ConcurrencyLimits
    /\ running_loop = NoLoop
    /\ loops_made = 0
    /\ sems_made = 0
    /\ got = NoCall
    /\ coros = [c \in Coros |-> NotSubmitted]
    /\ sem_value = [k \in 1..MaxSems |-> 0]
    /\ sem_bound = [k \in 1..MaxSems |-> 0]
    /\ ParkStage /\ ParkClient /\ ParkSynth /\ ParkMerge /\ ParkEnsemble /\ ParkAgent /\ ParkNorm /\ ParkGraph /\ ParkReward /\ ParkLang /\ ParkNecessity /\ ParkAug /\ ParkAugmenter /\ ParkBinding /\ ParkVerify /\ ParkWorkers /\ ParkVote

\* asyncio.run starts a loop; the coroutines of the loop before are gone
gather_loop_starts(i) ==
    /\ running_loop = NoLoop
    /\ loops_made < MaxLoops
    /\ loops_made' = loops_made + 1
    /\ running_loop' = [loop |-> loops_made + 1, id |-> i]
    /\ coros' = [c \in Coros |-> IF coros[c].at = "new" THEN coros[c]
                                 ELSE [at |-> "gone", name |-> "", sem |-> 0]]
    /\ UNCHANGED <<_semaphores, _max_concurrent, sems_made, got, sem_value, sem_bound>>
    /\ FrameGather

\* asyncio.run returns when every gather of the loop has returned
gather_loop_ends ==
    /\ running_loop # NoLoop
    /\ \A c \in Coros : coros[c].at \notin {"wrapped", "waiting", "inside"}
    /\ running_loop' = NoLoop
    /\ UNCHANGED <<_semaphores, _max_concurrent, loops_made, sems_made, got, coros, sem_value, sem_bound>>
    /\ FrameGather

\* gather_with_semaphore(*coros, name): get_semaphore(name), then every
\* coroutine wrapped in run_with_semaphore with that semaphore
gather_with_semaphore(name, C) ==
    /\ running_loop # NoLoop
    /\ C # {} /\ \A c \in C : coros[c].at = "new"
    /\ cache_hit(name) \/ sems_made < MaxSems
    /\ LET s == semaphore_for(name)
       IN  /\ coros' = [c \in Coros |-> IF c \in C THEN [at |-> "wrapped", name |-> name, sem |-> s]
                                        ELSE coros[c]]
           /\ got' = [name |-> name, in_loop |-> running_loop.loop, sem |-> s,
                      made_in |-> IF cache_hit(name) THEN _semaphores[name].made_in
                                  ELSE running_loop.loop]
           /\ IF cache_hit(name)
              THEN UNCHANGED <<_semaphores, sems_made, sem_value>>
              ELSE /\ sems_made' = sems_made + 1
                   /\ _semaphores' = [_semaphores EXCEPT ![name] =
                                         [sem |-> s, value |-> _max_concurrent,
                                          made_in |-> running_loop.loop,
                                          loop_id |-> current_loop_id]]
                   /\ sem_value' = [sem_value EXCEPT ![s] = _max_concurrent]
    /\ UNCHANGED <<_max_concurrent, running_loop, loops_made, sem_bound>>
    /\ FrameGather

\* async with semaphore, entering: at once when the value allows; otherwise
\* the coroutine waits, which binds the semaphore to the running loop and
\* raises when it is bound to another loop
run_with_semaphore_enters(c) ==
    /\ coros[c].at \in {"wrapped", "waiting"}
    /\ LET s == coros[c].sem
       IN  IF can_enter(sem_value[s])
           THEN /\ sem_value' = [sem_value EXCEPT ![s] = sem_value[s] - 1]
                /\ coros' = [coros EXCEPT ![c].at = "inside"]
                /\ UNCHANGED sem_bound
           ELSE /\ coros[c].at = "wrapped"
                /\ IF sem_bound[s] \in {0, running_loop.loop}
                   THEN /\ sem_bound' = [sem_bound EXCEPT ![s] = running_loop.loop]
                        /\ coros' = [coros EXCEPT ![c].at = "waiting"]
                   ELSE /\ coros' = [coros EXCEPT ![c].at = "raised"]
                        /\ UNCHANGED sem_bound
                /\ UNCHANGED sem_value
    /\ UNCHANGED <<_semaphores, _max_concurrent, running_loop, loops_made, sems_made, got>>
    /\ FrameGather

\* async with semaphore, leaving: the coroutine returned or raised
run_with_semaphore_leaves(c) ==
    /\ coros[c].at = "inside"
    /\ sem_value' = [sem_value EXCEPT ![coros[c].sem] = sem_value[coros[c].sem] + 1]
    /\ coros' = [coros EXCEPT ![c].at = "done"]
    /\ UNCHANGED <<_semaphores, _max_concurrent, running_loop, loops_made, sems_made, got, sem_bound>>
    /\ FrameGather

NextGather ==
    \/ \E i \in LoopIds : gather_loop_starts(i)
    \/ gather_loop_ends
    \/ \E n \in SemNames : \E C \in SUBSET Coros : gather_with_semaphore(n, C)
    \/ \E c \in Coros : run_with_semaphore_enters(c)
    \/ \E c \in Coros : run_with_semaphore_leaves(c)

SpecGather == InitGather /\ [][NextGather]_vars

inside_semaphore(name) == {c \in Coros : coros[c].at = "inside" /\ coros[c].name = name}

\* C35: at every moment, within the running event loop, the coroutines
\* submitted under one name that are executing inside the semaphore number at
\* most the max_concurrent configured at process start.
C35_AtMostMaxConcurrentInside ==
    \A n \in SemNames : Cardinality(inside_semaphore(n)) <= _max_concurrent

\* second loop of the process, limit 2: two coroutines are inside the
\* semaphore of their name while a third one submitted under that name waits
C35_Witness ==
    /\ _max_concurrent = 2 /\ running_loop.loop = 2
    /\ Cardinality(inside_semaphore("default")) = 2
    /\ \E d \in Coros : coros[d].at = "waiting" /\ coros[d].name = "default"

\* =====================================================================
\* Part XVII: sub-judge scores and composite of the decomposition verifier
\*   (env_synthesis/src/step_03_verify.py _split_trace_dependency,
\*    _get_subquestions_dependency_score, verify_dependency, verify_all)
\* =====================================================================

DEPENDENCY_ERROR_SCORE == 100   \* verify_dependency returns "score": -100

\* dependency of a step: None; a list of step numbers (empty, a step of the
\* record, 0, a number past the last step); a string; or no such key
VerifyDependencies ==
    {[kind |-> "none", steps |-> <<>>], [kind |-> "string", steps |-> <<>>],
     [kind |-> "missing", steps |-> <<>>]}
        \cup {[kind |-> "list", steps |-> l] : l \in {<<>>, <<1>>, <<0>>, <<NumTraceSteps + 1>>}}

Fraction(n, d) == [num |-> n, den |-> d]

\* response[_dep - 1] raises for a string and past the end of the list; a
\* negative index down to -len reads from the end
lookup_raises(d) ==
    \/ d.kind = "string"
    \/ d.kind = "list" /\ \E k \in 1..Len(d.steps) :
          d.steps[k] - 1 >= NumTraceSteps \/ d.steps[k] - 1 < 0 - NumTraceSteps

\* _split_trace_dependency: the steps that give a sample, and dependency_error
all_dependency_samples(tr) == {u \in TraceIds : tr[u].kind \in {"list", "string"} /\ ~lookup_raises(tr[u])}
dependency_error(tr) == {u \in TraceIds : tr[u].kind \in {"list", "string"} /\ lookup_raises(tr[u])}

\* verify_dependency, given the score of each sample (a failed call scores
\* SAFE_DEPENDENCY_SCORE); "raised" when a step has no dependency key
verify_dependency(tr, flags) ==
    IF \E u \in TraceIds : tr[u].kind = "missing" THEN [raised |-> TRUE, score |-> Fraction(0, 1)]
    ELSE IF dependency_error(tr) # {}
    THEN [raised |-> FALSE, score |-> Fraction(0 - DEPENDENCY_ERROR_SCORE, 1)]
    ELSE IF all_dependency_samples(tr) # {}
    THEN [raised |-> FALSE,
          score |-> Fraction(Cardinality({u \in all_dependency_samples(tr) : flags[u] = 1}),
                             Cardinality(all_dependency_samples(tr)))]
    ELSE [raised |-> FALSE, score |-> Fraction(SAFE_DEPENDENCY_SCORE, 1)]

\* verify_all: an exception of a sub-judge scores 1.0; the composite is the
\* mean of the four
verify_all_scores(tr, flags, others) ==
    LET dep == verify_dependency(tr, flags)
    IN  [j \in VerifyJudges |->
            IF j = "dependency" THEN (IF dep.raised THEN Fraction(1, 1) ELSE dep.score)
            ELSE Fraction(others[j], 1)]

composite(sc) ==
    LET d == sc["dependency"]
    IN  Fraction(d.num + d.den * (sc["data_quality"].num + sc["forced_serialization"].num
                                      + sc["completeness"].num),
                 4 * d.den)

InitVerify ==
    /\ vpc = "input"
    /\ verify_trace \in [TraceIds -> VerifyDependencies]
    /\ sub_scores = [j \in VerifyJudges |-> Fraction(0, 1)]
    /\ verify_result_score = Fraction(0, 1)
    /\ ParkStage /\ ParkClient /\ ParkSynth /\ ParkMerge /\ ParkEnsemble /\ ParkAgent /\ ParkNorm /\ ParkSem /\ ParkGraph /\ ParkReward /\ ParkLang /\ ParkNecessity /\ ParkAug /\ ParkAugmenter /\ ParkBinding /\ ParkGather /\ ParkWorkers /\ ParkVote

verify_all(flags, others) ==
    /\ vpc = "input"
    /\ \A u \in TraceIds : u \notin all_dependency_samples(verify_trace) => flags[u] = 1
    /\ sub_scores' = verify_all_scores(verify_trace, flags, others)
    /\ verify_result_score' = composite(verify_all_scores(verify_trace, flags, others))
    /\ vpc' = "done"
    /\ UNCHANGED verify_trace
    /\ FrameXVII

NextVerify ==
    \E flags \in [TraceIds -> JudgedScores] :
        \E others \in [VerifyJudges \ {"dependency"} -> JudgedScores] : verify_all(flags, others)

SpecVerify == InitVerify /\ [][NextVerify]_vars

in_unit_interval(f) == f.num >= 0 /\ f.num <= f.den

\* C36: every sub-judge score of the decomposition verifier and the composite
\* verify_result.score lie in [0, 1] for every input record, also when a
\* dependency list is malformed or names a step that does not exist.
C36_ScoresInUnitInterval ==
    (vpc = "done")
        => /\ \A j \in VerifyJudges : in_unit_interval(sub_scores[j])
           /\ in_unit_interval(verify_result_score)


(***************************************************************************)
(* Part I: records that share a resume key                                 *)
(***************************************************************************)
\* the executors that resume by the prompt or by the extracted user query
PromptOrQueryStages == {"run_inference", "interact"}

\* C37: when two distinct input records share the resume key (the same prompt,
\* the same extracted user query), both have a line in the output file once the
\* stage has completed, also after a run that was killed and resumed.
C37_SharedKeyRecordsBothAppear ==
    (pc = "done" /\ stage \in PromptOrQueryStages)
        => \A i, j \in Inputs :
              (i # j /\ keyOf[i] = keyOf[j])
                  => CountId(file, i) >= 1 /\ CountId(file, j) >= 1


\* =====================================================================
\* Part XVIII: multi_process_async_call
\*   (trajectory_synthesis/src/utils/utils.py _process_worker,
\*    multi_process_async_call)
\* =====================================================================

MaxProcesses == 2   \* largest num_processes tried
MaxItems == 4       \* longest inp_list tried

\* math.ceil(total_items / num_processes)
chunk_size(n, np) == (n + np - 1) \div np

\* chunks = [inp_list[i:i + chunk_size] for i in range(0, total_items, chunk_size)]:
\* the lengths of the chunks, by process id
chunks(n, np) ==
    LET cs == chunk_size(n, np)
    IN  [i \in 0..(((n + cs - 1) \div cs) - 1) |->
            IF (i + 1) * cs <= n THEN cs ELSE n - i * cs]

InitWorkers ==
    /\ wpc = "idle"
    /\ num_processes \in 1..MaxProcesses
    /\ total_items \in 0..MaxItems
    /\ proc_state = <<>> /\ chunk_todo = <<>>
    /\ result_queue = <<>> /\ result_count = 0
    /\ ParkAgent /\ ParkAug /\ ParkAugmenter /\ ParkBinding /\ ParkClient /\ ParkEnsemble /\ ParkGather /\ ParkGraph /\ ParkLang /\ ParkMerge /\ ParkNecessity /\ ParkNorm /\ ParkReward /\ ParkSem /\ ParkStage /\ ParkSynth /\ ParkVerify /\ ParkVote

\* multi_process_async_call up to the writer loop: range(0, 0, 0) raises
\* ValueError for an empty inp_list; otherwise one process per chunk is started
multi_process_async_call_starts ==
    /\ wpc = "idle"
    /\ IF chunk_size(total_items, num_processes) = 0
       THEN /\ wpc' = "raised"
            /\ UNCHANGED <<proc_state, chunk_todo>>
       ELSE /\ wpc' = "collecting"
            /\ chunk_todo' = chunks(total_items, num_processes)
            /\ proc_state' = [i \in DOMAIN chunks(total_items, num_processes) |-> "running"]
    /\ UNCHANGED <<num_processes, total_items, result_queue, result_count>>
    /\ FrameXVIII

\* _process_worker: one completed task, result_queue.put((process_id, result))
process_worker_puts(i) ==
    /\ wpc \in {"collecting", "joining"}
    /\ i \in DOMAIN proc_state /\ proc_state[i] = "running" /\ chunk_todo[i] > 0
    /\ result_queue' = Append(result_queue, i)
    /\ chunk_todo' = [chunk_todo EXCEPT ![i] = @ - 1]
    /\ UNCHANGED <<wpc, num_processes, total_items, proc_state, result_count>>
    /\ FrameXVIII

\* _process_worker: every task of the chunk is done, the process exits
process_worker_exits(i) ==
    /\ wpc \in {"collecting", "joining"}
    /\ i \in DOMAIN proc_state /\ proc_state[i] = "running" /\ chunk_todo[i] = 0
    /\ proc_state' = [proc_state EXCEPT ![i] = "exited"]
    /\ UNCHANGED <<wpc, num_processes, total_items, chunk_todo, result_queue, result_count>>
    /\ FrameXVIII

\* _process_worker ends with results of its chunk outstanding: AsyncOpenAI(...)
\* or openai_call_async's {**api_config} raised outside any try, or the process
\* was killed
process_worker_dies(i) ==
    /\ wpc \in {"collecting", "joining"}
    /\ i \in DOMAIN proc_state /\ proc_state[i] = "running" /\ chunk_todo[i] > 0
    /\ proc_state' = [proc_state EXCEPT ![i] = "died"]
    /\ UNCHANGED <<wpc, num_processes, total_items, chunk_todo, result_queue, result_count>>
    /\ FrameXVIII

\* the writer loop: result_queue.get() returns, the result is written
writer_gets ==
    /\ wpc = "collecting" /\ result_count < total_items
    /\ result_queue # <<>>
    /\ result_queue' = Tail(result_queue)
    /\ result_count' = result_count + 1
    /\ UNCHANGED <<wpc, num_processes, total_items, proc_state, chunk_todo>>
    /\ FrameXVIII

\* while result_count < total_items: the condition is false, the loop ends
writer_loop_ends ==
    /\ wpc = "collecting" /\ ~(result_count < total_items)
    /\ wpc' = "joining"
    /\ UNCHANGED <<num_processes, total_items, proc_state, chunk_todo, result_queue, result_count>>
    /\ FrameXVIII

\* for p in processes: p.join()
join_processes ==
    /\ wpc = "joining"
    /\ \A i \in DOMAIN proc_state : proc_state[i] # "running"
    /\ wpc' = "returned"
    /\ UNCHANGED <<num_processes, total_items, proc_state, chunk_todo, result_queue, result_count>>
    /\ FrameXVIII

ProcessIds == 0..(MaxProcesses - 1)

NextWorkers ==
    \/ multi_process_async_call_starts
    \/ \E i \in ProcessIds : process_worker_puts(i)
    \/ \E i \in ProcessIds : process_worker_exits(i)
    \/ \E i \in ProcessIds : process_worker_dies(i)
    \/ writer_gets
    \/ writer_loop_ends
    \/ join_processes

SpecWorkers == InitWorkers /\ [][NextWorkers]_vars

\* The parent and every live worker process keep running: each step of the
\* code that can be taken is taken. Nothing obliges a worker to die.
FairWorkers ==
    /\ WF_vars(multi_process_async_call_starts)
    /\ \A i \in ProcessIds : WF_vars(process_worker_puts(i))
    /\ \A i \in ProcessIds : WF_vars(process_worker_exits(i))
    /\ WF_vars(writer_gets)
    /\ WF_vars(writer_loop_ends)
    /\ WF_vars(join_processes)

SpecWorkersFair == SpecWorkers /\ FairWorkers

\* every started worker process has finished, with or without all its results
workers_finished ==
    /\ wpc = "collecting"
    /\ \A i \in DOMAIN proc_state : proc_state[i] # "running"

writer_loop_ended == wpc \in {"joining", "returned", "raised"}

\* C39: multi_process_async_call terminates: once all worker processes have
\* finished, the result-writer loop ends, also when a worker process exited
\* without having delivered a result for each of its inputs.
C39_WriterLoopEndsOnceWorkersFinished == workers_finished ~> writer_loop_ended


\* =====================================================================
\* Part XIX: voting ensembles of the chain verifiers
\*   (trajectory_synthesis/src/1_graph_build/verify/operators/vote_verify_chain.py vote_answers,
\*    .../back_translation_verify_chain.py back_translation_verify_score)
\* =====================================================================

MaxJudges == 3      \* most judge replies of one vote

\* One answer of vote_answers: JSON whose is_valid is truthy ("valid"), JSON
\* whose is_valid is falsy or absent ("invalid"), text json.loads or .get
\* rejects ("unparsable"), text with <think> but no </think> ("think_unclosed").
VoteAnswers == {"valid", "invalid", "unparsable", "think_unclosed"}

\* One future of back_translation_verify_score: do_verify returned valid True,
\* returned valid False, or raised
BackVerifies == {"valid", "invalid", "raised"}

VoteSeqs(S) == UNION {[1..k -> S] : k \in 0..MaxJudges}

count_of(replies, kind) == Cardinality({k \in DOMAIN replies : replies[k] = kind})

\* a vote that a tie wins
at_least(t, f) == t >= f

\* final_is_valid = vote_true_count > vote_false_count;
\* vote_valid = verify_true > verify_false
strictly_more(t, f) == t > f

\* answer_text.split("</think>")[1] on a text without "</think>": IndexError,
\* which vote_answers does not catch
vote_answers_raises(answers) == \E k \in DOMAIN answers : answers[k] = "think_unclosed"

vote_answers(answers) ==
    LET vote_true_count == count_of(answers, "valid")
        vote_false_count == count_of(answers, "invalid")
        parse_error_count == count_of(answers, "unparsable")
    IN  [is_valid |-> strictly_more(vote_true_count, vote_false_count),
         true |-> vote_true_count, false |-> vote_false_count,
         parse_error |-> parse_error_count]

\* results holds what the futures returned; a future that raised adds nothing
back_translation_verify_score(futures) ==
    LET verify_true == count_of(futures, "valid")
        verify_false == count_of(futures, "invalid")
    IN  [is_valid |-> strictly_more(verify_true, verify_false),
         true |-> verify_true, false |-> verify_false, parse_error |-> 0]

InitVote ==
    /\ voter \in {"vote_answers", "back_translation_verify_score"}
    /\ judge_replies \in VoteSeqs(IF voter = "vote_answers" THEN VoteAnswers ELSE BackVerifies)
    /\ vote_pc = "input"
    /\ vote_result = <<>>
    /\ ParkAgent /\ ParkAug /\ ParkAugmenter /\ ParkBinding /\ ParkClient /\ ParkEnsemble /\ ParkGather /\ ParkGraph /\ ParkLang /\ ParkMerge /\ ParkNecessity /\ ParkNorm /\ ParkReward /\ ParkSem /\ ParkStage /\ ParkSynth /\ ParkVerify /\ ParkWorkers

vote_answers_call ==
    /\ vote_pc = "input" /\ voter = "vote_answers"
    /\ IF vote_answers_raises(judge_replies)
       THEN vote_pc' = "raised" /\ UNCHANGED vote_result
       ELSE vote_pc' = "done" /\ vote_result' = vote_answers(judge_replies)
    /\ UNCHANGED <<voter, judge_replies>>
    /\ FrameXIX

back_translation_verify_score_call ==
    /\ vote_pc = "input" /\ voter = "back_translation_verify_score"
    /\ vote_pc' = "done"
    /\ vote_result' = back_translation_verify_score(judge_replies)
    /\ UNCHANGED <<voter, judge_replies>>
    /\ FrameXIX

NextVote == vote_answers_call \/ back_translation_verify_score_call

SpecVote == InitVote /\ [][NextVote]_vars

judges_valid == count_of(judge_replies, "valid")
judges_invalid == count_of(judge_replies, "invalid")

====
